---- MODULE Spec2Model ----
(***************************************************************************)
(* jsondrop: a multi-tenant JSON document store.                           *)
(*                                                                         *)
(* The module holds nine state machines:                                   *)
(*   SpecDoc  the document store of internal/database/documents.go, one    *)
(*            step per SQL statement, run by concurrent request goroutines *)
(*   SpecApi  the HTTP layer of internal/api (authMiddleware, the routes   *)
(*            of NewRouter and the handlers), one step per request         *)
(*   SpecBc   the change broadcaster of internal/events/broadcaster.go     *)
(*   SpecPing the broadcaster with the heartbeats of the streaming         *)
(*            handlers and the sweep of stale listeners, in ticker time    *)
(*   SpecCat  the catalog operations of internal/database/catalog.go       *)
(*            (CreateDatabase, CreateSchema, DeleteDatabase), one step per *)
(*            statement, run by concurrent request goroutines              *)
(*   SpecExp  the clock, last_accessed as authMiddleware keeps it, and     *)
(*            GetExpiredDatabases                                          *)
(*   SpecData the documents with their content: validation, the JSON text  *)
(*            stored and read back, the filters and the window of a query  *)
(*   SpecIdent the identifier sanitizer of internal/database/validation.go *)
(*            applied to names of every kind it tells apart                *)
(*   SpecMu   the broadcaster's lock: the sweep visit by visit, against    *)
(*            the registrations and the heartbeats of the streams          *)
(***************************************************************************)
EXTENDS Integers, Sequences, FiniteSets, Bags, TLC

VARIABLES
    docs,        \* rows of the tenants' collection tables: [id, db, coll, size]
    quotaUsed,   \* databases.quota_used, per tenant
    quotaLimit,  \* databases.quota_limit, per tenant
    call,        \* per request goroutine: the operation it is running
    nextDoc,     \* the next fresh document id (GenerateDocumentID)
    events,      \* the events handed to broadcaster.Broadcast, with their counts
    databases,   \* rows of the catalog table databases: [id, write_key, read_key]
    retired,     \* ids of deleted tenants (never generated again)
    files,       \* the tenants whose storage file exists
    schemas,     \* rows of the catalog table schemas: [db, name, fields]
    tables,      \* collection tables in the tenants' storage files: [db, name]
    subs,        \* listeners registered by the streaming handlers: [id, db, coll]
    lastReq,     \* the request served last and what it did
    databaseListeners,    \* Broadcaster.databaseListeners: dbID -> listeners
    collectionListeners,  \* Broadcaster.collectionListeners: dbID, collection -> listeners
    listener,    \* per Listener: its channels, its liveness, its handler's position
    bcast,       \* the Broadcast call in progress
    nextEvent,   \* the number of the next event handed to Broadcast
    heartbeats,  \* per Listener, in the timed runs: heartbeats made, intervals missed
    now,         \* time.Now(), in the runs that watch the expiry of tenants
    lastAccessed \* databases.last_accessed, per tenant with a row, in those runs

\* the storage both the document store and the HTTP layer act on
storeVars == <<docs, quotaUsed, quotaLimit, nextDoc, events>>

\* the state of the HTTP layer and the catalog
apiVars == <<databases, retired, files, schemas, tables, subs, lastReq>>

\* the state of the broadcaster and of the streaming handlers
bcVars == <<databaseListeners, collectionListeners, listener, bcast, nextEvent,
            heartbeats>>

\* the clock and the column last_accessed of the catalog
clockVars == <<now, lastAccessed>>

vars == <<docs, quotaUsed, quotaLimit, call, nextDoc, events,
          databases, retired, files, schemas, tables, subs, lastReq,
          databaseListeners, collectionListeners, listener, bcast, nextEvent,
          heartbeats, now, lastAccessed>>

(***************************************************************************)
(* Bounds of the document store model.                                     *)
(***************************************************************************)
MaxDocs == 2
DocQuotaLimit == 3

\* the request goroutines, the tenants and the serialized document sizes
Procs == {"p1", "p2"}
DocTenants == {"t1", "t2"}
DocIds == 1..MaxDocs
DocSizes == {1, 2}
DocColls == {<<"c", "1">>}

NoDoc == 0
NoQuota == -1

\* GenerateWriteKey / GenerateReadKey: the role prefix and the random part
WriteKey(body) == [prefix |-> "wk_", body |-> body]
ReadKey(body) == [prefix |-> "rk_", body |-> body]

\* no Authorization header and no key parameter
NoKey == [prefix |-> "", body |-> ""]

\* the record of the last request before any request was made
NoReq ==
    [write |-> FALSE, key |-> NoKey, url |-> "", status |-> 0, db |-> "",
     handler |-> "", name |-> <<>>, stmts |-> {}, rows |-> {}]

(***************************************************************************)
(* Bounds and values of the broadcaster model.                             *)
(***************************************************************************)
MaxListeners == 2
MaxBroadcasts == 1

\* make(chan models.ChangeEvent, 10)
QueueCap == 10

ListenerPool == 1..MaxListeners
BcTenants == {"t1", "t2"}
BcColls == {<<"a">>, <<"b">>}

\* the collection of a tenant-level listener
NoColl == <<>>

NoEvent == [seq |-> 0, db |-> "", coll |-> NoColl]

\* the ticker of the delivery loops, handlers.go:186 and :261: 15 seconds, the
\* unit of time of the model
HeartbeatEvery == 1

\* 2*time.Minute, broadcaster.go:172 and :188, in heartbeat intervals
StaleAfter == 8

\* no heartbeat made and no interval missed; made counts the heartbeats of a
\* loop that has missed no interval so far
NoHeartbeats == [made |-> 0, missed |-> FALSE]

\* a Listener that no Subscribe has made yet; age is the time since LastPing
FreeListener ==
    [pc |-> "none", db |-> "", coll |-> NoColl, Events |-> <<>>, Done |-> "open",
     age |-> 0, closes |-> 0, got |-> <<>>]

\* no Broadcast call is running
IdleBcast ==
    [pc |-> "idle", ev |-> NoEvent, dbSnap |-> {}, collSnap |-> {},
     visited |-> {}, dropped |-> {}]

\* the runs that do not watch the clock: it stands still, and last_accessed
\* is left out of the rows
ClockStopped ==
    /\ now = 0
    /\ lastAccessed = <<>>

\* NewBroadcaster: two empty registries
NewBroadcaster ==
    /\ databaseListeners = [d \in BcTenants |-> {}]
    /\ collectionListeners = [k \in BcTenants \X BcColls |-> {}]
    /\ listener = [l \in ListenerPool |-> FreeListener]
    /\ bcast = IdleBcast
    /\ nextEvent = 1
    /\ heartbeats = [l \in ListenerPool |-> NoHeartbeats]

(***************************************************************************)
(* Pure helpers of the document store.                                     *)
(***************************************************************************)

RECURSIVE SumSizes(_)
\* the sum of the serialized sizes of a set of rows
SumSizes(rows) ==
    IF rows = {} THEN 0
    ELSE LET r == CHOOSE x \in rows : TRUE
         IN  r.size + SumSizes(rows \ {r})

\* the rows stored for tenant db
RowsOf(db) == {r \in docs : r.db = db}

\* updateQuotaAfterInsert compares the old quota alone with the limit
QuotaExceeded_IgnoresSize(used, additionalSize, limit) ==
    used > limit

\* updateQuotaAfterInsert: newQuotaUsed := quotaUsed + additionalSize;
\* the insert is rejected when newQuotaUsed > quotaLimit
QuotaExceeded(used, additionalSize, limit) ==
    used + additionalSize > limit

\* InsertDocument's rollback left out: the row stays
RollbackInsert_Skipped(rows, db, coll, id) ==
    rows

\* InsertDocument's rollback: DELETE FROM <collection> WHERE id = docID
RollbackInsert(rows, db, coll, id) ==
    {r \in rows : ~(r.db = db /\ r.coll = coll /\ r.id = id)}

\* DeleteDocument: newQuotaUsed := quotaUsed - documentSize, floored at zero
QuotaAfterDelete(used, documentSize) ==
    IF used - documentSize < 0 THEN 0 ELSE used - documentSize

\* models.ChangeEvent as the document store builds it
DocEvent(type, db, coll, id) ==
    [type |-> type, db |-> db, coll |-> coll, id |-> id]

\* c.broadcaster.Broadcast(dbID, event), as the document store sees it: the
\* event joins the bag of the events handed over
Emit(ev) == events (+) SetToBag({ev})

\* how often event ev has been handed to the broadcaster
Emitted(ev) == CopiesIn(ev, events)

IdleCall ==
    [pc |-> "idle", op |-> "", db |-> "", coll |-> <<>>, id |-> NoDoc, size |-> 0,
     read |-> NoQuota, result |-> "", alone |-> FALSE,
     q0 |-> NoQuota, docs0 |-> {}, seen |-> {}]

\* a step of goroutine p on tenant db: p's call becomes c, and every other call
\* on db that has started and not yet been answered is no longer alone
Disturb(p, db, c) ==
    [q \in Procs |->
        IF q = p THEN c
        ELSE IF call[q].pc # "idle" /\ call[q].db = db
             THEN [call[q] EXCEPT !.alone = FALSE, !.q0 = NoQuota, !.docs0 = {}]
             ELSE call[q]]

\* whether some other call is in flight on tenant db
OthersInFlight(p, db) ==
    \E q \in Procs \ {p} : call[q].pc \notin {"idle", "done"} /\ call[q].db = db

\* the record of a call that starts now on tenant db
StartCall(p, op, db, coll) ==
    [IdleCall EXCEPT !.op = op, !.db = db, !.coll = coll,
                     !.alone = ~OthersInFlight(p, db),
                     !.q0 = IF OthersInFlight(p, db) THEN NoQuota ELSE quotaUsed[db],
                     !.docs0 = IF OthersInFlight(p, db) THEN {} ELSE RowsOf(db)]

(***************************************************************************)
(* InsertDocument, documents.go:14-78, with updateQuotaAfterInsert inlined *)
(***************************************************************************)

\* lines 16-46: the fresh id, the marshalled size and the INSERT statement
InsExec(p, db, coll, size) ==
    /\ call[p].pc = "idle"
    /\ nextDoc <= MaxDocs
    /\ docs' = docs \cup {[id |-> nextDoc, db |-> db, coll |-> coll, size |-> size]}
    /\ nextDoc' = nextDoc + 1
    /\ call' = Disturb(p, db,
                 [StartCall(p, "insert", db, coll) EXCEPT !.pc = "ins_quota", !.id = nextDoc,
                                                !.size = size])
    /\ UNCHANGED <<quotaUsed, quotaLimit, events>>
    /\ UNCHANGED <<apiVars, bcVars, clockVars>>

\* lines 83-88: SELECT quota_used, quota_limit
InsReadQuota(p) ==
    /\ call[p].pc = "ins_quota"
    /\ call' = Disturb(p, call[p].db,
                 [call[p] EXCEPT !.pc = "ins_check", !.read = quotaUsed[call[p].db]])
    /\ UNCHANGED <<docs, quotaUsed, quotaLimit, nextDoc, events>>
    /\ UNCHANGED <<apiVars, bcVars, clockVars>>

\* lines 90-96 and 50-54: the quota is exceeded, the row is deleted again and
\* the error returned
InsReject(p) ==
    LET c == call[p] IN
    /\ c.pc = "ins_check"
    /\ QuotaExceeded(c.read, c.size, quotaLimit[c.db])
    /\ docs' = RollbackInsert(docs, c.db, c.coll, c.id)
    /\ call' = Disturb(p, c.db, [c EXCEPT !.pc = "done", !.result = "quota_exceeded"])
    /\ UNCHANGED <<quotaUsed, quotaLimit, nextDoc, events>>
    /\ UNCHANGED <<apiVars, bcVars, clockVars>>

\* lines 98-99 and 56-77: UPDATE quota_used, then the insert event
InsCommit(p) ==
    LET c == call[p] IN
    /\ c.pc = "ins_check"
    /\ ~QuotaExceeded(c.read, c.size, quotaLimit[c.db])
    /\ quotaUsed' = [quotaUsed EXCEPT ![c.db] = c.read + c.size]
    /\ events' = Emit(DocEvent("insert", c.db, c.coll, c.id))
    /\ call' = Disturb(p, c.db, [c EXCEPT !.pc = "done", !.result = "ok"])
    /\ UNCHANGED <<docs, quotaLimit, nextDoc>>
    /\ UNCHANGED <<apiVars, bcVars, clockVars>>

(***************************************************************************)
(* DeleteDocument, documents.go:279-341                                    *)
(***************************************************************************)

\* lines 287-298: SELECT data; no row is "document not found"
DelSelect(p, db, coll, id) ==
    /\ call[p].pc = "idle"
    /\ LET rows == {r \in docs : r.db = db /\ r.coll = coll /\ r.id = id}
           c0 == [StartCall(p, "delete", db, coll) EXCEPT !.id = id]
       IN  IF rows = {}
           THEN call' = Disturb(p, db,
                          [c0 EXCEPT !.pc = "done", !.result = "not_found"])
           ELSE call' = Disturb(p, db,
                          [c0 EXCEPT !.pc = "del_exec",
                                     !.size = (CHOOSE r \in rows : TRUE).size])
    /\ UNCHANGED <<docs, quotaUsed, quotaLimit, nextDoc, events>>
    /\ UNCHANGED <<apiVars, bcVars, clockVars>>

\* a DELETE whose count of affected rows is not looked at
DelExec_IgnoresRowsAffected(p) ==
    LET c == call[p]
        rows == {r \in docs : r.db = c.db /\ r.coll = c.coll /\ r.id = c.id}
    IN
    /\ c.pc = "del_exec"
    /\ docs' = docs \ rows
    /\ call' = Disturb(p, c.db, [c EXCEPT !.pc = "del_quota"])
    /\ UNCHANGED <<quotaUsed, quotaLimit, nextDoc, events>>
    /\ UNCHANGED <<apiVars, bcVars, clockVars>>

\* lines 300-310: DELETE; no row affected is "document not found"
DelExec(p) ==
    LET c == call[p]
        rows == {r \in docs : r.db = c.db /\ r.coll = c.coll /\ r.id = c.id}
    IN
    /\ c.pc = "del_exec"
    /\ docs' = docs \ rows
    /\ IF rows = {}
       THEN call' = Disturb(p, c.db, [c EXCEPT !.pc = "done", !.result = "not_found"])
       ELSE call' = Disturb(p, c.db, [c EXCEPT !.pc = "del_quota"])
    /\ UNCHANGED <<quotaUsed, quotaLimit, nextDoc, events>>
    /\ UNCHANGED <<apiVars, bcVars, clockVars>>

\* lines 312-319: SELECT quota_used
DelReadQuota(p) ==
    /\ call[p].pc = "del_quota"
    /\ call' = Disturb(p, call[p].db,
                 [call[p] EXCEPT !.pc = "del_update", !.read = quotaUsed[call[p].db]])
    /\ UNCHANGED <<docs, quotaUsed, quotaLimit, nextDoc, events>>
    /\ UNCHANGED <<apiVars, bcVars, clockVars>>

\* lines 321-340: UPDATE quota_used, then the delete event
DelUpdate(p) ==
    LET c == call[p] IN
    /\ c.pc = "del_update"
    /\ quotaUsed' = [quotaUsed EXCEPT ![c.db] = QuotaAfterDelete(c.read, c.size)]
    /\ events' = Emit(DocEvent("delete", c.db, c.coll, c.id))
    /\ call' = Disturb(p, c.db, [c EXCEPT !.pc = "done", !.result = "ok"])
    /\ UNCHANGED <<docs, quotaLimit, nextDoc>>
    /\ UNCHANGED <<apiVars, bcVars, clockVars>>

(***************************************************************************)
(* QueryDocuments, documents.go:157-218 (GetDocument, 112-154, likewise):   *)
(* one SELECT on the tenant's file, on a connection of its own, outside    *)
(* any transaction of the writers. seen holds the ids of the rows read.    *)
(***************************************************************************)
QueryRows(p, db, coll) ==
    /\ call[p].pc = "idle"
    /\ call' = [call EXCEPT ![p] =
                  [IdleCall EXCEPT !.op = "query", !.db = db, !.coll = coll,
                                   !.pc = "done", !.result = "ok",
                                   !.seen = {r.id : r \in {x \in docs : x.db = db /\ x.coll = coll}}]]
    /\ UNCHANGED <<docs, quotaUsed, quotaLimit, nextDoc, events>>
    /\ UNCHANGED <<apiVars, bcVars, clockVars>>

\* the handler has written its response; the goroutine serves the next request
Return(p) ==
    /\ call[p].pc = "done"
    /\ call' = [call EXCEPT ![p] = IdleCall]
    /\ UNCHANGED <<docs, quotaUsed, quotaLimit, nextDoc, events>>
    /\ UNCHANGED <<apiVars, bcVars, clockVars>>

InitDoc ==
    /\ docs = {}
    /\ quotaUsed = [t \in DocTenants |-> 0]
    /\ quotaLimit = [t \in DocTenants |-> DocQuotaLimit]
    /\ call = [p \in Procs |-> IdleCall]
    /\ nextDoc = 1
    /\ events = EmptyBag
    /\ databases = {[id |-> t, write_key |-> WriteKey(t), read_key |-> ReadKey(t)] :
                        t \in DocTenants}
    /\ retired = {}
    /\ files = DocTenants
    /\ schemas = {[db |-> t, name |-> c, fields |-> ("a" :> "string")] :
                      t \in DocTenants, c \in DocColls}
    /\ tables = {[db |-> t, name |-> c] : t \in DocTenants, c \in DocColls}
    /\ subs = {}
    /\ lastReq = NoReq
    /\ ClockStopped
    /\ NewBroadcaster

NextDoc ==
    \/ \E p \in Procs, db \in DocTenants, coll \in DocColls, size \in DocSizes :
          InsExec(p, db, coll, size)
    \/ \E p \in Procs : InsReadQuota(p)
    \/ \E p \in Procs : InsReject(p)
    \/ \E p \in Procs : InsCommit(p)
    \/ \E p \in Procs, db \in DocTenants, coll \in DocColls, id \in DocIds :
          DelSelect(p, db, coll, id)
    \/ \E p \in Procs : DelExec(p)
    \/ \E p \in Procs : DelReadQuota(p)
    \/ \E p \in Procs : DelUpdate(p)
    \/ \E p \in Procs, db \in DocTenants, coll \in DocColls : QueryRows(p, db, coll)
    \/ \E p \in Procs : Return(p)

SpecDoc == InitDoc /\ [][NextDoc]_vars

(***************************************************************************)
(* Properties of the document store, checked under SpecDoc.                *)
(***************************************************************************)

\* whether a call is running on tenant db (started, not yet returned)
InFlight(db) ==
    \E p \in Procs : call[p].pc \notin {"idle", "done"} /\ call[p].db = db

\* the rows of db whose InsertDocument has returned success
CommittedRows(db) ==
    {r \in RowsOf(db) : Emitted(DocEvent("insert", db, r.coll, r.id)) > 0}

\* no DeleteDocument has removed a row of db so far
NoDeleteYet(db) ==
    /\ \A e \in BagToSet(events) : ~(e.db = db /\ e.type = "delete")
    /\ \A p \in Procs :
          ~(call[p].db = db /\ call[p].pc \in {"del_quota", "del_update"})

\* C1: in every reachable state each tenant's stored quota_used is at most its
\* quota_limit, whatever the interleaving of InsertDocument and DeleteDocument.
C1_QuotaWithinLimit ==
    \A t \in DocTenants : quotaUsed[t] <= quotaLimit[t]

\* C1 witness: an insert has been rejected for quota on a tenant that holds
\* charged documents and has no room for the rejected one.
C1_Witness ==
    \E p \in Procs :
        /\ call[p].pc = "done" /\ call[p].op = "insert"
        /\ call[p].result = "quota_exceeded"
        /\ quotaUsed[call[p].db] > 0
        /\ quotaUsed[call[p].db] + call[p].size > quotaLimit[call[p].db]

\* C2: the inserts of one tenant that return success fit into the quota that
\* remained when they started. Every tenant starts with quota_used = 0, so as
\* long as nothing has been deleted the sizes of the successfully inserted
\* documents sum to at most quota_limit.
C2_SuccessfulInsertsFit ==
    \A t \in DocTenants :
        NoDeleteYet(t) => SumSizes(CommittedRows(t)) <= quotaLimit[t]

\* C3: whenever no document operation is in flight on a tenant, quota_used
\* equals the sum of the sizes of the tenant's stored documents.
C3_QuotaMatchesStored ==
    \A t \in DocTenants : ~InFlight(t) => quotaUsed[t] = SumSizes(RowsOf(t))

C5_QuotaDeltaExact ==
    \A p \in Procs :
        LET c == call[p] IN
        (c.pc = "done" /\ c.result = "ok" /\ c.alone) =>
            IF c.op = "insert"
            THEN quotaUsed[c.db] = c.q0 + c.size
            ELSE quotaUsed[c.db] = c.q0 - c.size

(***************************************************************************)
(* The identifier sanitizer, internal/database/validation.go.              *)
(* A name is a sequence of one-character strings.                          *)
(***************************************************************************)

LowerSeq ==
    <<"a", "b", "c", "d", "e", "f", "g", "h", "i", "j", "k", "l", "m">> \o
    <<"n", "o", "p", "q", "r", "s", "t", "u", "v", "w", "x", "y", "z">>

UpperSeq ==
    <<"A", "B", "C", "D", "E", "F", "G", "H", "I", "J", "K", "L", "M">> \o
    <<"N", "O", "P", "Q", "R", "S", "T", "U", "V", "W", "X", "Y", "Z">>

Digits == {"0", "1", "2", "3", "4", "5", "6", "7", "8", "9"}

reservedKeywords ==
    {<<"S", "E", "L", "E", "C", "T">>,
     <<"I", "N", "S", "E", "R", "T">>,
     <<"U", "P", "D", "A", "T", "E">>,
     <<"D", "E", "L", "E", "T", "E">>,
     <<"D", "R", "O", "P">>,
     <<"C", "R", "E", "A", "T", "E">>,
     <<"A", "L", "T", "E", "R">>,
     <<"T", "A", "B", "L", "E">>,
     <<"I", "N", "D", "E", "X">>,
     <<"V", "I", "E", "W">>,
     <<"D", "A", "T", "A", "B", "A", "S", "E">>,
     <<"S", "C", "H", "E", "M", "A">>,
     <<"W", "H", "E", "R", "E">>,
     <<"F", "R", "O", "M">>,
     <<"J", "O", "I", "N">>,
     <<"U", "N", "I", "O", "N">>,
     <<"O", "R", "D", "E", "R">>,
     <<"G", "R", "O", "U", "P">>,
     <<"H", "A", "V", "I", "N", "G">>,
     <<"L", "I", "M", "I", "T">>,
     <<"O", "F", "F", "S", "E", "T">>}

Letters == {LowerSeq[i] : i \in 1..Len(LowerSeq)} \cup {UpperSeq[i] : i \in 1..Len(UpperSeq)}

MaxIdentifierLen == 64

\* strings.ToUpper on one character
ToUpperChar(ch) ==
    IF \E i \in 1..Len(LowerSeq) : LowerSeq[i] = ch
    THEN UpperSeq[CHOOSE i \in 1..Len(LowerSeq) : LowerSeq[i] = ch]
    ELSE ch

\* strings.ToUpper
ToUpper(name) == [i \in 1..Len(name) |-> ToUpperChar(name[i])]

\* identifierPattern: ^[a-zA-Z_][a-zA-Z0-9_]*$
MatchesIdentifierPattern(name) ==
    /\ Len(name) >= 1
    /\ name[1] \in Letters \cup {"_"}
    /\ \A i \in 2..Len(name) : name[i] \in Letters \cup Digits \cup {"_"}

\* a length check that already refuses 64 characters
ValidateIdentifier_Below64(name) ==
    /\ name # <<>>
    /\ Len(name) < MaxIdentifierLen
    /\ MatchesIdentifierPattern(name)
    /\ ToUpper(name) \notin reservedKeywords

\* ValidateIdentifier: TRUE when it returns nil
ValidateIdentifier(name) ==
    /\ name # <<>>
    /\ Len(name) <= MaxIdentifierLen
    /\ MatchesIdentifierPattern(name)
    /\ ToUpper(name) \notin reservedKeywords

(***************************************************************************)
(* The HTTP layer: internal/api/middleware.go, router.go, handlers.go and  *)
(* the catalog operations of internal/database/catalog.go it calls.        *)
(* One step serves one request.                                            *)
(***************************************************************************)

\* the tenant ids GenerateDatabaseID can return and the random parts of keys
TenantIds == {"t1", "t2"}
KeyBodies == {"k1", "k2"}

\* the keys a caller can present
PresentedKeys ==
    {NoKey, [prefix |-> "xk_", body |-> "k1"]}
        \cup [prefix : {"wk_", "rk_"}, body : KeyBodies]

\* collection and schema names taken from the URL
NameUsers == <<"u", "s", "e", "r", "s">>
\* a name that carries statements of its own: it ends the CREATE TABLE after
\* "x(a)", attaches the catalog file (CATALOG_DB_PATH, ./data/catalog.db, the
\* "/" written as char(47) to fit in one URL segment), deletes the rows of its
\* schemas table, and opens a second CREATE TABLE for the rest of the text
AttachCatalog == "ATTACH DATABASE 'data'||char(47)||'catalog.db' AS c"
DeleteAllSchemas == "DELETE FROM c.schemas"
CreateTableKw == "CREATE TABLE IF NOT EXISTS "
NameInject ==
    <<"x", "(", "a", ")", ";", AttachCatalog, ";", DeleteAllSchemas, ";",
      CreateTableKw, "y">>
ApiNames == {NameUsers, NameInject}

\* the field maps of a CreateSchemaRequest
ApiFieldMaps == {<<>>, ("a" :> "string"), ("a" :> "text")}

\* decoded JSON values: their Go type and the bytes they serialize to
JsonValue(kind, len) == [kind |-> kind, len |-> len]

\* the data maps of an InsertDocumentRequest
ApiData ==
    {<<>>,
     ("a" :> JsonValue("string", 1)),
     ("a" :> JsonValue("string", 2)),
     ("a" :> JsonValue("number", 1))}

RECURSIVE SumLens(_, _)
SumLens(data, fs) ==
    IF fs = {} THEN 0
    ELSE LET f == CHOOSE x \in fs : TRUE
         IN  data[f].len + SumLens(data, fs \ {f})

\* len(dataJSON), the size charged against the quota
DataSize(data) == SumLens(data, DOMAIN data)

\* FieldType.IsValid
IsValidFieldType(ft) == ft \in {"string", "number", "bool"}

\* validateFieldValue
validateFieldValue(value, expectedType) ==
    CASE expectedType = "string" -> value.kind = "string"
      [] expectedType = "number" -> value.kind = "number"
      [] expectedType = "bool" -> value.kind = "bool"
      [] OTHER -> FALSE

\* a validation without its second loop: fields of the schema may be missing
ValidateDocument_NoRequired(data, fields) ==
    \A f \in DOMAIN data :
        f \in DOMAIN fields /\ validateFieldValue(data[f], fields[f])

\* ValidateDocument: TRUE when it returns nil
ValidateDocument(data, fields) ==
    /\ \A f \in DOMAIN data :
          f \in DOMAIN fields /\ validateFieldValue(data[f], fields[f])
    /\ \A f \in DOMAIN fields : f \in DOMAIN data

\* CatalogDB.defaultQuota
DefaultQuota == DocQuotaLimit

\* the events one run may publish
MaxEvents == 3
CanEmit == BagCardinality(events) < MaxEvents

MaxStreams == 1
ListenerIds == 1..MaxStreams

\* getDatabaseByKey: the rows whose key column holds the key
GetDatabaseByWriteKey(key) == {r \in databases : r.write_key = key}
GetDatabaseByReadKey(key) == {r \in databases : r.read_key = key}

\* GetSchema: the schema rows of (db, name)
GetSchema(db, name) == {r \in schemas : r.db = db /\ r.name = name}

Deny(status) == [status |-> status, db |-> "", isWrite |-> FALSE]

\* authMiddleware, middleware.go:62-84: no row is 401, a URL id that is not the
\* resolved tenant's is 403, otherwise the tenant and the capability go into the
\* request context
AuthResolve(rows, isWrite, urlId) ==
    IF rows = {} THEN Deny(401)
    ELSE LET db == CHOOSE r \in rows : TRUE
         IN  IF urlId # "" /\ urlId # db.id
             THEN Deny(403)
             ELSE [status |-> 200, db |-> db.id, isWrite |-> isWrite]

\* authMiddleware, middleware.go:27-60: the key's prefix selects the lookup and
\* the capability
authMiddleware(key, urlId) ==
    IF key = NoKey THEN Deny(401)
    ELSE IF key.prefix = "wk_"
         THEN AuthResolve(GetDatabaseByWriteKey(key), TRUE, urlId)
    ELSE IF key.prefix = "rk_"
         THEN AuthResolve(GetDatabaseByReadKey(key), FALSE, urlId)
    ELSE Deny(401)

\* a router whose mutating routes lack requireWriteKey
requireWriteKey_Missing(auth) == TRUE

\* requireWriteKey: the request context must hold is_write = true
requireWriteKey(auth) == auth.isWrite

\* the handlers NewRouter mounts under /api/databases/{id}, and whether the
\* route is wrapped in requireWriteKey
WriteRoutes ==
    {"DeleteDatabase", "CreateSchema", "DeleteSchema", "InsertDocument",
     "DeleteDocument"}
ReadRoutes ==
    {"StreamDatabaseEvents", "StreamCollectionEvents", "QueryDocuments"}

\* what the router and the middlewares decide for a request to a route:
\* the status that ends it early, or 200 and the request context
Admit(route, key, urlId) ==
    LET auth == authMiddleware(key, urlId) IN
    IF auth.status # 200 THEN auth
    ELSE IF route \in WriteRoutes /\ ~requireWriteKey(auth) THEN Deny(403)
    ELSE auth

\* the record of a request that the middlewares ended
Refused(route, key, urlId, status) ==
    [NoReq EXCEPT !.write = route \in WriteRoutes, !.key = key, !.url = urlId,
                  !.status = status]

\* the record of a request whose handler ran for tenant db
Served(route, key, urlId, db, name, status, stmts, rows) ==
    [write |-> route \in WriteRoutes, key |-> key, url |-> urlId, status |-> status,
     db |-> db, handler |-> route, name |-> name, stmts |-> stmts, rows |-> rows]

\* a generated storage statement with the name interpolated into it
Stmt(kind, name) == [kind |-> kind, name |-> name]

Range(seq) == {seq[i] : i \in 1..Len(seq)}

\* the column list createCollectionTable appends to its statement
ColumnList ==
    " (id TEXT PRIMARY KEY, created_at INTEGER NOT NULL, updated_at INTEGER NOT NULL, data TEXT NOT NULL)"

\* createSQL: fmt.Sprintf("CREATE TABLE IF NOT EXISTS %s (", collectionName)
\* and the column list
CreateTableSQL(collectionName) ==
    <<CreateTableKw>> \o collectionName \o <<ColumnList>>

RECURSIVE SplitStatements(_)
\* db.Exec with the go-sqlite3 driver runs every statement of the text, one
\* after the other: the text cut at each ";"
SplitStatements(text) ==
    IF ";" \notin Range(text) THEN <<text>>
    ELSE LET i == CHOOSE k \in 1..Len(text) :
                      text[k] = ";" /\ \A j \in 1..(k - 1) : text[j] # ";"
         IN  <<SubSeq(text, 1, i - 1)>> \o SplitStatements(SubSeq(text, i + 1, Len(text)))

\* the table a CREATE TABLE statement names: what stands before its column list
TableNamed(stmt) ==
    LET stop == CHOOSE k \in 2..Len(stmt) :
                    /\ stmt[k] \in {"(", ColumnList}
                    /\ \A j \in 2..(k - 1) : stmt[j] \notin {"(", ColumnList}
    IN  SubSeq(stmt, 2, stop - 1)

\* the tables that executing the text creates
TablesCreated(text) ==
    {TableNamed(st) : st \in {x \in Range(SplitStatements(text)) : x[1] = CreateTableKw}}

\* executing the text deletes every row of the catalog's schemas table
WipesSchemas(text) ==
    LET stmts == SplitStatements(text) IN
    \E i, j \in 1..Len(stmts) :
        i < j /\ stmts[i] = <<AttachCatalog>> /\ stmts[j] = <<DeleteAllSchemas>>

\* a request to an authenticated route that the middlewares end
RequestRefused(route, key, urlId) ==
    /\ lastReq = NoReq
    /\ Admit(route, key, urlId).status # 200
    /\ lastReq' = Refused(route, key, urlId, Admit(route, key, urlId).status)
    /\ UNCHANGED <<storeVars, call, bcVars, clockVars>>
    /\ UNCHANGED <<databases, retired, files, schemas, tables, subs>>

\* the frame of a request that changes nothing but its own record
OnlyLastReq ==
    /\ UNCHANGED <<storeVars, call, bcVars, clockVars>>
    /\ UNCHANGED <<databases, retired, files, schemas, tables, subs>>

\* a databases table whose key columns are not declared UNIQUE
UniqueViolation_IdOnly(rows, row) == \E r \in rows : r.id = row.id

\* initSchema: id TEXT PRIMARY KEY, write_key TEXT UNIQUE, read_key TEXT UNIQUE;
\* TRUE when the INSERT of row fails on one of them
UniqueViolation(rows, row) ==
    \E r \in rows :
        r.id = row.id \/ r.write_key = row.write_key \/ r.read_key = row.read_key


(***************************************************************************)
(* POST /api/databases: Handler.CreateDatabase (handlers.go:33-41) and     *)
(* CatalogDB.CreateDatabase (catalog.go:98-141).                           *)
(***************************************************************************)
HCreateDatabase(id, wbody, rbody, fileOk) ==
    LET row == [id |-> id, write_key |-> WriteKey(wbody), read_key |-> ReadKey(rbody)]
        clash == UniqueViolation(databases, row)
    IN
    /\ lastReq = NoReq
    /\ id \notin retired
    /\ IF clash \/ ~fileOk
       THEN \* the INSERT fails, or initDatabaseFile fails and the row is deleted again
            /\ lastReq' = Served("CreateDatabase", NoKey, "", "", <<>>, 500, {}, {})
            /\ OnlyLastReq
       ELSE /\ databases' = databases \cup {row}
            /\ files' = files \cup {id}
            /\ quotaUsed' = [quotaUsed EXCEPT ![id] = 0]
            /\ quotaLimit' = [quotaLimit EXCEPT ![id] = DefaultQuota]
            /\ lastReq' = Served("CreateDatabase", NoKey, "", id, <<>>, 201, {}, {})
            /\ UNCHANGED <<docs, nextDoc, events, call, bcVars, clockVars, retired, schemas,
                           tables, subs>>

(***************************************************************************)
(* DELETE /api/databases/{id}: Handler.DeleteDatabase (handlers.go:496-511)*)
(* and CatalogDB.DeleteDatabase (catalog.go:260-275). The schemas rows go  *)
(* with the tenant only when the connection enforces foreign keys.         *)
(***************************************************************************)
HDeleteDatabase(key, urlId, cascade) ==
    LET auth == Admit("DeleteDatabase", key, urlId)
        db == auth.db
        row == CHOOSE r \in databases : r.id = db
    IN
    /\ lastReq = NoReq
    /\ auth.status = 200
    /\ files' = files \ {db}
    /\ docs' = docs \ RowsOf(db)
    /\ tables' = {t \in tables : t.db # db}
    /\ databases' = databases \ {row}
    /\ quotaUsed' = [quotaUsed EXCEPT ![db] = 0]
    /\ quotaLimit' = [quotaLimit EXCEPT ![db] = 0]
    /\ schemas' = IF cascade THEN {r \in schemas : r.db # db} ELSE schemas
    /\ retired' = retired \cup {db}
    /\ lastReq' = Served("DeleteDatabase", key, urlId, db, <<>>, 204, {}, {})
    /\ UNCHANGED <<nextDoc, events, call, bcVars, clockVars, subs>>

(***************************************************************************)
(* POST /api/databases/{id}/schemas/{name}: Handler.CreateSchema           *)
(* (handlers.go:44-100), CatalogDB.CreateSchema and createCollectionTable  *)
(* (catalog.go:278-377).                                                   *)
(***************************************************************************)

\* a check of the field map that looks at its length only
FieldsRejected_EmptyOnly(fields) == DOMAIN fields = {}

\* the checks of the field map, handlers.go:64-79 and catalog.go:280-291
FieldsRejected(fields) ==
    \/ DOMAIN fields = {}
    \/ \E f \in DOMAIN fields : ~IsValidFieldType(fields[f]) \/ f = ""

HCreateSchema(key, urlId, name, fields, provision) ==
    LET auth == Admit("CreateSchema", key, urlId)
        db == auth.db
        create == {Stmt("CREATE TABLE", name)}
        createSQL == CreateTableSQL(name)
    IN
    /\ lastReq = NoReq
    /\ auth.status = 200
    /\ IF FieldsRejected(fields)
       THEN /\ lastReq' = Served("CreateSchema", key, urlId, db, name, 400, {}, {})
            /\ OnlyLastReq
       ELSE IF GetSchema(db, name) # {}
       THEN /\ lastReq' = Served("CreateSchema", key, urlId, db, name, 409, {}, {})
            /\ OnlyLastReq
       ELSE IF provision = "create_fails"
       THEN \* CREATE TABLE fails: the schemas row is deleted again
            /\ lastReq' = Served("CreateSchema", key, urlId, db, name, 500, create, {})
            /\ OnlyLastReq
       ELSE /\ CanEmit
            /\ schemas' = IF WipesSchemas(createSQL) THEN {}
                          ELSE schemas \cup {[db |-> db, name |-> name, fields |-> fields]}
            /\ tables' = tables \cup {[db |-> db, name |-> t] : t \in TablesCreated(createSQL)}
            /\ events' = Emit(DocEvent("schema_created", db, name, NoDoc))
            /\ lastReq' = Served("CreateSchema", key, urlId, db, name, 201, create, {})
            /\ UNCHANGED <<docs, quotaUsed, quotaLimit, nextDoc, call, bcVars, clockVars,
                           databases, retired, files, subs>>

(***************************************************************************)
(* DELETE /api/databases/{id}/schemas/{name}: Handler.DeleteSchema         *)
(* (handlers.go:468-493). CatalogDB.DeleteSchema is not among the sources: *)
(* it removes the schema, its collection table and the documents in it,    *)
(* and takes their sizes off the quota.                                    *)
(***************************************************************************)
CatalogDeleteSchema(db, name) ==
    LET gone == {r \in docs : r.db = db /\ r.coll = name} IN
    /\ schemas' = schemas \ GetSchema(db, name)
    /\ tables' = tables \ {[db |-> db, name |-> name]}
    /\ docs' = docs \ gone
    /\ quotaUsed' = [quotaUsed EXCEPT ![db] = QuotaAfterDelete(@, SumSizes(gone))]
    /\ events' = Emit(DocEvent("schema_deleted", db, name, NoDoc))

HDeleteSchema(key, urlId, name) ==
    LET auth == Admit("DeleteSchema", key, urlId)
        db == auth.db
    IN
    /\ lastReq = NoReq
    /\ auth.status = 200
    /\ IF GetSchema(db, name) = {}
       THEN /\ lastReq' = Served("DeleteSchema", key, urlId, db, name, 404, {}, {})
            /\ OnlyLastReq
       ELSE /\ CanEmit
            /\ CatalogDeleteSchema(db, name)
            /\ lastReq' = Served("DeleteSchema", key, urlId, db, name, 204,
                                 {Stmt("DROP TABLE", name)}, {})
            /\ UNCHANGED <<quotaLimit, nextDoc, call, bcVars, clockVars, databases, retired,
                           files, subs>>

(***************************************************************************)
(* POST /api/databases/{id}/{collection}: Handler.InsertDocument           *)
(* (handlers.go:103-158) and CatalogDB.InsertDocument (documents.go:14-100)*)
(***************************************************************************)
HInsertDocument(key, urlId, coll, data) ==
    LET auth == Admit("InsertDocument", key, urlId)
        db == auth.db
        schema == GetSchema(db, coll)
        row == [id |-> nextDoc, db |-> db, coll |-> coll, size |-> DataSize(data)]
        insert == Stmt("INSERT", coll)
    IN
    /\ lastReq = NoReq
    /\ auth.status = 200
    /\ IF DOMAIN data = {}
       THEN /\ lastReq' = Served("InsertDocument", key, urlId, db, coll, 400, {}, {})
            /\ OnlyLastReq
       ELSE IF schema = {}
       THEN /\ lastReq' = Served("InsertDocument", key, urlId, db, coll, 404, {}, {})
            /\ OnlyLastReq
       ELSE IF ~ValidateDocument(data, (CHOOSE r \in schema : TRUE).fields)
       THEN /\ lastReq' = Served("InsertDocument", key, urlId, db, coll, 400, {}, {})
            /\ OnlyLastReq
       ELSE IF [db |-> db, name |-> coll] \notin tables
       THEN \* the INSERT fails: no such table
            /\ lastReq' = Served("InsertDocument", key, urlId, db, coll, 500, {insert}, {})
            /\ OnlyLastReq
       ELSE IF QuotaExceeded(quotaUsed[db], row.size, quotaLimit[db])
       THEN /\ nextDoc <= MaxDocs
            /\ docs' = RollbackInsert(docs \cup {row}, db, coll, row.id)
            /\ nextDoc' = nextDoc + 1
            /\ lastReq' = Served("InsertDocument", key, urlId, db, coll, 402,
                                 {insert, Stmt("DELETE", coll)}, {})
            /\ UNCHANGED <<quotaUsed, quotaLimit, events, call, bcVars, clockVars>>
            /\ UNCHANGED <<databases, retired, files, schemas, tables, subs>>
       ELSE /\ nextDoc <= MaxDocs
            /\ CanEmit
            /\ docs' = docs \cup {row}
            /\ nextDoc' = nextDoc + 1
            /\ quotaUsed' = [quotaUsed EXCEPT ![db] = @ + row.size]
            /\ events' = Emit(DocEvent("insert", db, coll, row.id))
            /\ lastReq' = Served("InsertDocument", key, urlId, db, coll, 201, {insert}, {})
            /\ UNCHANGED <<quotaLimit, call, bcVars, clockVars>>
            /\ UNCHANGED <<databases, retired, files, schemas, tables, subs>>

(***************************************************************************)
(* DELETE /api/databases/{id}/{collection}/{docId}: Handler.DeleteDocument *)
(* (handlers.go:367-398) and CatalogDB.DeleteDocument                      *)
(* (documents.go:279-341). The handler looks up no schema.                 *)
(***************************************************************************)
HDeleteDocument(key, urlId, coll, id) ==
    LET auth == Admit("DeleteDocument", key, urlId)
        db == auth.db
        rows == {r \in docs : r.db = db /\ r.coll = coll /\ r.id = id}
        select == Stmt("SELECT", coll)
    IN
    /\ lastReq = NoReq
    /\ auth.status = 200
    /\ IF [db |-> db, name |-> coll] \notin tables
       THEN \* the SELECT fails: no such table
            /\ lastReq' = Served("DeleteDocument", key, urlId, db, coll, 500, {select}, {})
            /\ OnlyLastReq
       ELSE IF rows = {}
       THEN /\ lastReq' = Served("DeleteDocument", key, urlId, db, coll, 404, {select}, {})
            /\ OnlyLastReq
       ELSE /\ CanEmit
            /\ docs' = docs \ rows
            /\ quotaUsed' = [quotaUsed EXCEPT
                               ![db] = QuotaAfterDelete(@, (CHOOSE r \in rows : TRUE).size)]
            /\ events' = Emit(DocEvent("delete", db, coll, id))
            /\ lastReq' = Served("DeleteDocument", key, urlId, db, coll, 204,
                                 {select, Stmt("DELETE", coll)}, {})
            /\ UNCHANGED <<quotaLimit, nextDoc, call, bcVars, clockVars>>
            /\ UNCHANGED <<databases, retired, files, schemas, tables, subs>>

(***************************************************************************)
(* PUT /api/databases/{id}/{collection}/{docId}: NewRouter (router.go:45-  *)
(* 53) mounts DELETE on this path and no PUT ("TODO: Add PUT for           *)
(* documents"), so Handler.UpdateDocument (handlers.go:401-465) is never   *)
(* called: after authMiddleware of the /databases/{id} group, the router   *)
(* answers 405 Method Not Allowed.                                         *)
(***************************************************************************)
PutDocument(key, urlId, coll) ==
    LET auth == authMiddleware(key, urlId) IN
    /\ lastReq = NoReq
    /\ IF auth.status # 200
       THEN lastReq' = Refused("UpdateDocument", key, urlId, auth.status)
       ELSE lastReq' = Served("UpdateDocument", key, urlId, auth.db, coll, 405, {}, {})
    /\ OnlyLastReq

(***************************************************************************)
(* GET /api/databases/{id}/{collection}: Handler.QueryDocuments            *)
(* (handlers.go:294-364) and CatalogDB.QueryDocuments (documents.go:157)   *)
(***************************************************************************)
HQueryDocuments(key, urlId, coll) ==
    LET auth == Admit("QueryDocuments", key, urlId)
        db == auth.db
    IN
    /\ lastReq = NoReq
    /\ auth.status = 200
    /\ IF GetSchema(db, coll) = {}
       THEN lastReq' = Served("QueryDocuments", key, urlId, db, coll, 404, {}, {})
       ELSE lastReq' = Served("QueryDocuments", key, urlId, db, coll, 200,
                              {Stmt("SELECT", coll)},
                              {r \in docs : r.db = db /\ r.coll = coll})
    /\ OnlyLastReq

(***************************************************************************)
(* GET .../events: Handler.StreamDatabaseEvents (handlers.go:161-216) and  *)
(* Handler.StreamCollectionEvents (handlers.go:219-291) subscribe for the  *)
(* tenant of the request context; the deferred Unsubscribe ends the stream *)
(***************************************************************************)
HStreamDatabaseEvents(key, urlId, l) ==
    LET auth == Admit("StreamDatabaseEvents", key, urlId)
        db == auth.db
    IN
    /\ lastReq = NoReq
    /\ auth.status = 200
    /\ \A x \in subs : x.id # l
    /\ subs' = subs \cup {[id |-> l, db |-> db, coll |-> <<>>]}
    /\ lastReq' = Served("StreamDatabaseEvents", key, urlId, db, <<>>, 200, {}, {})
    /\ UNCHANGED <<storeVars, call, bcVars, clockVars, databases, retired, files,
                   schemas, tables>>

HStreamCollectionEvents(key, urlId, coll, l) ==
    LET auth == Admit("StreamCollectionEvents", key, urlId)
        db == auth.db
    IN
    /\ lastReq = NoReq
    /\ auth.status = 200
    /\ \A x \in subs : x.id # l
    /\ IF GetSchema(db, coll) = {}
       THEN /\ lastReq' = Served("StreamCollectionEvents", key, urlId, db, coll, 404, {}, {})
            /\ OnlyLastReq
       ELSE /\ subs' = subs \cup {[id |-> l, db |-> db, coll |-> coll]}
            /\ lastReq' = Served("StreamCollectionEvents", key, urlId, db, coll, 200, {}, {})
            /\ UNCHANGED <<storeVars, call, bcVars, clockVars, databases, retired, files,
                   schemas, tables>>

HStreamEnd(x) ==
    /\ lastReq = NoReq
    /\ x \in subs
    /\ subs' = subs \ {x}
    /\ lastReq' = Served("StreamEnd", NoKey, "", x.db, x.coll, 200, {}, {})
    /\ UNCHANGED <<storeVars, call, bcVars, clockVars, databases, retired, files,
                   schemas, tables>>

\* the response is written and the handler returns: the next request is served
Respond ==
    /\ lastReq # NoReq
    /\ lastReq' = NoReq
    /\ OnlyLastReq

AuthRoutes == WriteRoutes \cup ReadRoutes

InitApi ==
    /\ docs = {}
    /\ quotaUsed = [t \in TenantIds |-> 0]
    /\ quotaLimit = [t \in TenantIds |-> 0]
    /\ call = [p \in Procs |-> IdleCall]
    /\ nextDoc = 1
    /\ events = EmptyBag
    /\ databases = {}
    /\ retired = {}
    /\ files = {}
    /\ schemas = {}
    /\ tables = {}
    /\ subs = {}
    /\ lastReq = NoReq
    /\ ClockStopped
    /\ NewBroadcaster

NextApi ==
    \/ \E id \in TenantIds, wb \in KeyBodies, rb \in KeyBodies, fileOk \in BOOLEAN :
          HCreateDatabase(id, wb, rb, fileOk)
    \/ \E route \in AuthRoutes, key \in PresentedKeys, urlId \in TenantIds :
          RequestRefused(route, key, urlId)
    \/ \E key \in PresentedKeys, urlId \in TenantIds, cascade \in BOOLEAN :
          HDeleteDatabase(key, urlId, cascade)
    \/ \E key \in PresentedKeys, urlId \in TenantIds, name \in ApiNames,
          fields \in ApiFieldMaps, provision \in {"ok", "create_fails"} :
          HCreateSchema(key, urlId, name, fields, provision)
    \/ \E key \in PresentedKeys, urlId \in TenantIds, name \in ApiNames :
          HDeleteSchema(key, urlId, name)
    \/ \E key \in PresentedKeys, urlId \in TenantIds, coll \in ApiNames, data \in ApiData :
          HInsertDocument(key, urlId, coll, data)
    \/ \E key \in PresentedKeys, urlId \in TenantIds, coll \in ApiNames, id \in DocIds :
          HDeleteDocument(key, urlId, coll, id)
    \/ \E key \in PresentedKeys, urlId \in TenantIds, coll \in ApiNames :
          HQueryDocuments(key, urlId, coll)
    \/ \E key \in PresentedKeys, urlId \in TenantIds, coll \in ApiNames :
          PutDocument(key, urlId, coll)
    \/ \E key \in PresentedKeys, urlId \in TenantIds, l \in ListenerIds :
          HStreamDatabaseEvents(key, urlId, l)
    \/ \E key \in PresentedKeys, urlId \in TenantIds, coll \in ApiNames, l \in ListenerIds :
          HStreamCollectionEvents(key, urlId, coll, l)
    \/ \E x \in subs : HStreamEnd(x)
    \/ Respond

SpecApi == InitApi /\ [][NextApi]_vars

(***************************************************************************)
(* Claims about the HTTP layer, checked under SpecApi                      *)
(***************************************************************************)

\* what the catalog, the tenant file and the broadcaster hold for tenant a
TenantState(a) ==
    <<{r \in databases : r.id = a}, a \in files, RowsOf(a),
      {r \in schemas : r.db = a}, {t \in tables : t.db = a},
      quotaUsed[a], quotaLimit[a], {x \in subs : x.db = a}>>

\* the documents, schemas, tables, tenants and quotas of the whole service
StoredData == <<databases, files, docs, schemas, tables, quotaUsed, quotaLimit>>

\* C6: every collection or schema name that is interpolated into a generated
\* storage statement (CREATE TABLE, INSERT, SELECT, DELETE) has been accepted
\* by ValidateIdentifier, and CreateSchema stores no schema whose name
\* ValidateIdentifier rejects.
C6_NamesValidatedBeforeUse ==
    /\ \A st \in lastReq.stmts : ValidateIdentifier(st.name)
    /\ \A r \in schemas : ValidateIdentifier(r.name)

\* C7: a request authenticated with a read key never makes a mutating
\* operation run: the request context holds the write capability only for a
\* key that is some tenant's write_key, every mutating handler that runs was
\* called with the write_key of the tenant it runs for, and the stored data
\* changes only in a step of such a handler or of tenant creation.
C7_ReadKeyNeverMutates ==
    [][ /\ \A key \in PresentedKeys, urlId \in TenantIds :
              authMiddleware(key, urlId).isWrite =>
                  \E r \in databases : r.write_key = key
        /\ lastReq'.handler \in WriteRoutes =>
              \E r \in databases : r.id = lastReq'.db /\ r.write_key = lastReq'.key
        /\ StoredData' # StoredData =>
              lastReq'.handler \in WriteRoutes \cup {"CreateDatabase"}
      ]_vars

\* a read key of an existing tenant with documents was presented on a mutating
\* route of that tenant and the request ended with 403 before any handler
C7_Witness ==
    /\ lastReq.write
    /\ lastReq.status = 403
    /\ lastReq.handler = ""
    /\ \E r \in databases :
          r.read_key = lastReq.key /\ r.id = lastReq.url /\ RowsOf(r.id) # {}

\* C8: tenant isolation. A step changes the documents, schemas, quota or
\* listeners of tenant a only if it is a handler running for a; a handler of
\* an authenticated route runs for the tenant that owns the presented key, and
\* only when the URL names that tenant; the rows a query returns are rows of
\* that tenant; and a request whose URL id differs from the tenant its key
\* resolves to ends with 403 and changes nothing.
C8_TenantIsolation ==
    [][ /\ \A a \in TenantIds :
              TenantState(a)' # TenantState(a) =>
                  lastReq'.handler # "" /\ lastReq'.db = a
        /\ lastReq'.handler \in AuthRoutes =>
              \E r \in databases :
                  /\ r.id = lastReq'.db
                  /\ lastReq'.key \in {r.write_key, r.read_key}
                  /\ lastReq'.url = r.id
        /\ \A x \in lastReq'.rows : x.db = lastReq'.db
        /\ \A r \in databases :
              (lastReq'.key \in {r.write_key, r.read_key} /\ lastReq'.url # r.id) =>
                  /\ lastReq'.handler = ""
                  /\ lastReq'.status = 403
                  /\ StoredData' = StoredData /\ subs' = subs /\ events' = events
      ]_vars

(***************************************************************************)
(* The change broadcaster, internal/events/broadcaster.go, and the         *)
(* delivery loops of the streaming handlers. Subscribe, Unsubscribe and    *)
(* the sweep hold the write lock for their whole body, so each is one      *)
(* step. Broadcast holds the read lock only while it fetches the two       *)
(* listener sets; its sends are steps of their own.                        *)
(***************************************************************************)

\* the frame of the broadcaster's actions
BcFrame == UNCHANGED <<storeVars, call, apiVars, heartbeats, clockVars>>

\* the listeners held by either registry
Registered ==
    UNION {databaseListeners[d] : d \in BcTenants}
        \cup UNION {collectionListeners[k] : k \in BcTenants \X BcColls}

\* Subscribe: a fresh Listener, registered for the tenant
Subscribe(l, db) ==
    /\ listener[l].pc = "none"
    /\ listener' = [listener EXCEPT ![l] =
                       [FreeListener EXCEPT !.pc = "stream", !.db = db]]
    /\ databaseListeners' = [databaseListeners EXCEPT ![db] = @ \cup {l}]
    /\ UNCHANGED <<collectionListeners, bcast, nextEvent>>
    /\ BcFrame

\* SubscribeCollection: a fresh Listener, registered for the tenant's collection
SubscribeCollection(l, db, coll) ==
    /\ listener[l].pc = "none"
    /\ listener' = [listener EXCEPT ![l] =
                       [FreeListener EXCEPT !.pc = "stream", !.db = db, !.coll = coll]]
    /\ collectionListeners' = [collectionListeners EXCEPT ![<<db, coll>>] = @ \cup {l}]
    /\ UNCHANGED <<databaseListeners, bcast, nextEvent>>
    /\ BcFrame

\* a sweep that evicts every listener whose last heartbeat is not of this instant
IsStale_AnyAge(rec) == rec.age > 0

\* time.Since(listener.LastPing) > 2*time.Minute
IsStale(rec) == rec.age > StaleAfter

\* listener.LastPing = time.Now()
Pinged(rec) == [rec EXCEPT !.age = 0]

\* close(listener.Done): closing a closed channel panics; closes counts the calls
CloseDone(rec) ==
    [rec EXCEPT !.Done = "closed", !.closes = IF @ < 2 THEN @ + 1 ELSE @]

\* the delivery loop takes an event from listener.Events and writes it out
StreamEvent(l) ==
    /\ listener[l].pc = "stream"
    /\ listener[l].Events # <<>>
    /\ listener' = [listener EXCEPT ![l].Events = Tail(@)]
    /\ UNCHANGED <<databaseListeners, collectionListeners, bcast, nextEvent>>
    /\ BcFrame

\* the heartbeat case of the delivery loop: UpdatePing
UpdatePing(l) ==
    /\ listener[l].pc = "stream"
    /\ listener[l].age > 0
    /\ listener' = [listener EXCEPT ![l] = Pinged(@)]
    /\ UNCHANGED <<databaseListeners, collectionListeners, bcast, nextEvent>>
    /\ BcFrame

\* more than two minutes pass without the loop reaching its heartbeat case
\* (it is blocked writing to a client that does not read)
PingOverdue(l) ==
    /\ listener[l].pc = "stream"
    /\ ~IsStale(listener[l])
    /\ listener' = [listener EXCEPT ![l].age = StaleAfter + 1]
    /\ UNCHANGED <<databaseListeners, collectionListeners, bcast, nextEvent>>
    /\ BcFrame

\* the delivery loop returns: listener.Done is closed, or the client is gone
StreamReturn(l, clientGone) ==
    /\ listener[l].pc = "stream"
    /\ clientGone \/ listener[l].Done = "closed"
    /\ listener' = [listener EXCEPT ![l].pc = "unsub"]
    /\ UNCHANGED <<databaseListeners, collectionListeners, bcast, nextEvent>>
    /\ BcFrame

\* the deferred Unsubscribe of StreamDatabaseEvents
Unsubscribe(l) ==
    /\ listener[l].pc = "unsub"
    /\ listener[l].coll = NoColl
    /\ databaseListeners' = [databaseListeners EXCEPT ![listener[l].db] = @ \ {l}]
    /\ listener' = [listener EXCEPT ![l] = [CloseDone(@) EXCEPT !.pc = "ended"]]
    /\ UNCHANGED <<collectionListeners, bcast, nextEvent>>
    /\ BcFrame

\* the deferred UnsubscribeCollection of StreamCollectionEvents
UnsubscribeCollection(l) ==
    /\ listener[l].pc = "unsub"
    /\ listener[l].coll # NoColl
    /\ collectionListeners' =
          [collectionListeners EXCEPT ![<<listener[l].db, listener[l].coll>>] = @ \ {l}]
    /\ listener' = [listener EXCEPT ![l] = [CloseDone(@) EXCEPT !.pc = "ended"]]
    /\ UNCHANGED <<databaseListeners, bcast, nextEvent>>
    /\ BcFrame

\* a sweep that looks at the tenant-level listeners only
cleanupRoutine_DatabaseOnly ==
    LET evicted == {l \in UNION {databaseListeners[d] : d \in BcTenants} :
                       IsStale(listener[l])} IN
    /\ evicted # {}
    /\ databaseListeners' = [d \in BcTenants |-> databaseListeners[d] \ evicted]
    /\ listener' = [l \in ListenerPool |->
                       IF l \in evicted THEN CloseDone(listener[l]) ELSE listener[l]]
    /\ UNCHANGED <<collectionListeners, bcast, nextEvent>>
    /\ BcFrame

\* one pass of cleanupRoutine: every registered listener whose LastPing is
\* older than two minutes is deleted from its set and its Done is closed
cleanupRoutine ==
    LET evicted == {l \in Registered : IsStale(listener[l])} IN
    /\ evicted # {}
    /\ databaseListeners' = [d \in BcTenants |-> databaseListeners[d] \ evicted]
    /\ collectionListeners' =
          [k \in BcTenants \X BcColls |-> collectionListeners[k] \ evicted]
    /\ listener' = [l \in ListenerPool |->
                       IF l \in evicted THEN CloseDone(listener[l]) ELSE listener[l]]
    /\ UNCHANGED <<bcast, nextEvent>>
    /\ BcFrame

\* a Broadcast that sends to the listeners of every collection of the tenant
CollectionTargets_AnyCollection(db, coll) ==
    UNION {collectionListeners[<<db, c>>] : c \in BcColls}

\* Broadcast, under the read lock: collections[event.Collection]
CollectionTargets(db, coll) ==
    collectionListeners[<<db, coll>>]

\* the listeners a range loop over a listener set can still produce: the set
\* is not copied, so entries deleted or added by a concurrent Unsubscribe,
\* Subscribe or sweep may or may not be produced; a nil set produces nothing
IterCandidates(snap, current) ==
    IF snap = {} THEN {} ELSE snap \cup current

\* a send that waits for room instead of giving up: the event is queued anyway
Offer_NoDefault(rec, ev) ==
    [rec EXCEPT !.Events = Append(@, ev), !.got = Append(@, ev)]

\* select { case listener.Events <- event: default: }
Offer(rec, ev) ==
    IF Len(rec.Events) < QueueCap
    THEN [rec EXCEPT !.Events = Append(@, ev), !.got = Append(@, ev)]
    ELSE rec

\* Broadcast takes the read lock and fetches the two listener sets
BroadcastBegin(db, coll) ==
    /\ bcast.pc = "idle"
    /\ nextEvent <= MaxBroadcasts
    /\ bcast' = [IdleBcast EXCEPT
                    !.pc = "database",
                    !.ev = [seq |-> nextEvent, db |-> db, coll |-> coll],
                    !.dbSnap = databaseListeners[db],
                    !.collSnap = CollectionTargets(db, coll)]
    /\ nextEvent' = nextEvent + 1
    /\ UNCHANGED <<databaseListeners, collectionListeners, listener>>
    /\ BcFrame

\* one iteration of the loop over the tenant-level listeners
BroadcastToDatabase(l) ==
    /\ bcast.pc = "database"
    /\ l \in IterCandidates(bcast.dbSnap, databaseListeners[bcast.ev.db]) \ bcast.visited
    /\ listener' = [listener EXCEPT ![l] = Offer(@, bcast.ev)]
    /\ bcast' = [bcast EXCEPT
                    !.visited = @ \cup {l},
                    !.dropped = IF Len(listener[l].Events) < QueueCap
                                THEN @ ELSE @ \cup {l}]
    /\ UNCHANGED <<databaseListeners, collectionListeners, nextEvent>>
    /\ BcFrame

\* the first loop ends: every entry that stayed in the set has been produced
BroadcastNextLoop ==
    /\ bcast.pc = "database"
    /\ bcast.dbSnap \cap databaseListeners[bcast.ev.db] \subseteq bcast.visited
    /\ bcast' = [bcast EXCEPT !.pc = "collection", !.visited = {}]
    /\ UNCHANGED <<databaseListeners, collectionListeners, listener, nextEvent>>
    /\ BcFrame

\* one iteration of the loop over the collection-level listeners
BroadcastToCollection(l) ==
    /\ bcast.pc = "collection"
    /\ l \in IterCandidates(bcast.collSnap,
                            CollectionTargets(bcast.ev.db, bcast.ev.coll)) \ bcast.visited
    /\ listener' = [listener EXCEPT ![l] = Offer(@, bcast.ev)]
    /\ bcast' = [bcast EXCEPT
                    !.visited = @ \cup {l},
                    !.dropped = IF Len(listener[l].Events) < QueueCap
                                THEN @ ELSE @ \cup {l}]
    /\ UNCHANGED <<databaseListeners, collectionListeners, nextEvent>>
    /\ BcFrame

\* the second loop ends and Broadcast returns
BroadcastReturn ==
    /\ bcast.pc = "collection"
    /\ bcast.collSnap \cap CollectionTargets(bcast.ev.db, bcast.ev.coll)
          \subseteq bcast.visited
    /\ bcast' = IdleBcast
    /\ UNCHANGED <<databaseListeners, collectionListeners, listener, nextEvent>>
    /\ BcFrame

\* QueueCap earlier events of tenant t1 that a listener has not taken yet
Backlog ==
    [i \in 1..QueueCap |-> [seq |-> i - QueueCap - 1, db |-> "t1", coll |-> <<"a">>]]

\* a broadcaster that has run for a while: one tenant-level listener of t1
\* whose delivery loop is behind by QueueCap events
BroadcasterWithBacklog ==
    /\ databaseListeners = [d \in BcTenants |-> IF d = "t1" THEN {1} ELSE {}]
    /\ collectionListeners = [k \in BcTenants \X BcColls |-> {}]
    /\ listener = [l \in ListenerPool |->
                      IF l = 1
                      THEN [FreeListener EXCEPT !.pc = "stream", !.db = "t1",
                                                !.Events = Backlog, !.got = Backlog]
                      ELSE FreeListener]
    /\ bcast = IdleBcast
    /\ nextEvent = 1
    /\ heartbeats = [l \in ListenerPool |-> NoHeartbeats]

InitBc ==
    /\ docs = {}
    /\ quotaUsed = [t \in TenantIds |-> 0]
    /\ quotaLimit = [t \in TenantIds |-> 0]
    /\ call = [p \in Procs |-> IdleCall]
    /\ nextDoc = 1
    /\ events = EmptyBag
    /\ databases = {}
    /\ retired = {}
    /\ files = {}
    /\ schemas = {}
    /\ tables = {}
    /\ subs = {}
    /\ lastReq = NoReq
    /\ ClockStopped
    /\ NewBroadcaster \/ BroadcasterWithBacklog

NextBc ==
    \/ \E l \in ListenerPool, db \in BcTenants : Subscribe(l, db)
    \/ \E l \in ListenerPool, db \in BcTenants, coll \in BcColls :
          SubscribeCollection(l, db, coll)
    \/ \E l \in ListenerPool : StreamEvent(l)
    \/ \E l \in ListenerPool : UpdatePing(l)
    \/ \E l \in ListenerPool : PingOverdue(l)
    \/ \E l \in ListenerPool, clientGone \in BOOLEAN : StreamReturn(l, clientGone)
    \/ \E l \in ListenerPool : Unsubscribe(l)
    \/ \E l \in ListenerPool : UnsubscribeCollection(l)
    \/ cleanupRoutine
    \/ \E db \in BcTenants, coll \in BcColls : BroadcastBegin(db, coll)
    \/ \E l \in ListenerPool : BroadcastToDatabase(l)
    \/ BroadcastNextLoop
    \/ \E l \in ListenerPool : BroadcastToCollection(l)
    \/ BroadcastReturn

SpecBc == InitBc /\ [][NextBc]_vars

\* the steps of the goroutine that runs Broadcast once it holds its two sets
BroadcastStep ==
    \/ \E l \in ListenerPool : BroadcastToDatabase(l)
    \/ BroadcastNextLoop
    \/ \E l \in ListenerPool : BroadcastToCollection(l)
    \/ BroadcastReturn

\* the broadcaster with a scheduler that keeps running the goroutine that is
\* inside Broadcast: none of its steps waits for anything
SpecBcFair == SpecBc /\ WF_vars(BroadcastStep)

(***************************************************************************)
(* The heartbeat of the delivery loops against the sweep, with time. One   *)
(* unit of time is the heartbeat interval; the tickers of all loops fire   *)
(* together. A loop that is at its select handles a fired ticker before    *)
(* the next interval ends; a loop that is inside a write to a client that  *)
(* does not read handles nothing. No events are published.                 *)
(***************************************************************************)

\* the frame of the timed steps
TimedFrame ==
    UNCHANGED <<storeVars, call, apiVars, clockVars,
                databaseListeners, collectionListeners, bcast, nextEvent>>

\* one more heartbeat made in time; the count stops at the first missed interval
Made(hb) ==
    IF hb.missed THEN hb
    ELSE [hb EXCEPT !.made = IF @ <= StaleAfter THEN @ + 1 ELSE @]

\* one heartbeat interval passes: LastPing of every connected listener is one
\* interval older, and a loop that is inside a write has missed its ticker
Tick ==
    /\ \A l \in ListenerPool : listener[l].pc = "stream" => listener[l].age = 0
    /\ listener' =
          [l \in ListenerPool |->
              IF listener[l].pc \in {"stream", "write"}
              THEN [listener[l] EXCEPT
                       !.age = IF @ <= StaleAfter THEN @ + HeartbeatEvery ELSE @]
              ELSE listener[l]]
    /\ heartbeats' =
          [l \in ListenerPool |->
              IF listener[l].pc = "write"
              THEN [made |-> 0, missed |-> TRUE]
              ELSE heartbeats[l]]
    /\ TimedFrame

\* case <-ticker.C: the ping is written and flushed, then UpdatePing
Heartbeat(l) ==
    /\ listener[l].pc = "stream"
    /\ listener[l].age > 0
    /\ listener' = [listener EXCEPT ![l] = Pinged(@)]
    /\ heartbeats' = [heartbeats EXCEPT ![l] = Made(@)]
    /\ TimedFrame

\* case <-ticker.C: the write of the ping does not return, the client does
\* not read and the connection stays open
HeartbeatBlocks(l) ==
    /\ listener[l].pc = "stream"
    /\ listener[l].age > 0
    /\ listener' = [listener EXCEPT ![l].pc = "write"]
    /\ UNCHANGED heartbeats
    /\ TimedFrame

\* the write returns (the client read, or the connection broke); UpdatePing
\* follows and the loop is back at its select
WriteReturns(l) ==
    /\ listener[l].pc = "write"
    /\ listener' = [listener EXCEPT ![l] = [Pinged(@) EXCEPT !.pc = "stream"]]
    /\ heartbeats' = [heartbeats EXCEPT ![l] = Made(@)]
    /\ TimedFrame

InitPing == InitBc /\ NewBroadcaster

NextPing ==
    \/ \E l \in ListenerPool : Subscribe(l, "t1")
    \/ \E l \in ListenerPool : SubscribeCollection(l, "t1", <<"a">>)
    \/ Tick
    \/ \E l \in ListenerPool : Heartbeat(l)
    \/ \E l \in ListenerPool : HeartbeatBlocks(l)
    \/ \E l \in ListenerPool : WriteReturns(l)
    \/ cleanupRoutine
    \/ \E l \in ListenerPool, clientGone \in BOOLEAN : StreamReturn(l, clientGone)
    \/ \E l \in ListenerPool : Unsubscribe(l)
    \/ \E l \in ListenerPool : UnsubscribeCollection(l)

SpecPing == InitPing /\ [][NextPing]_vars

\* the sweep's ticker keeps firing, and a select that keeps finding Done
\* closed takes that case in the end (select picks among its ready cases at
\* random); whether a write to a client ever returns is up to the client
SpecPingFair ==
    /\ SpecPing
    /\ WF_vars(cleanupRoutine)
    /\ \A l \in ListenerPool : SF_vars(StreamReturn(l, FALSE))

(***************************************************************************)
(* Claims about the broadcaster, checked under SpecBc                      *)
(***************************************************************************)

\* the event is one the listener subscribed for
Matches(l, ev) ==
    /\ listener[l].db = ev.db
    /\ listener[l].coll = NoColl \/ listener[l].coll = ev.coll

\* C9: cancelling a subscription is idempotent: in every execution the
\* termination channel Done of a listener is closed at most once, so neither
\* Unsubscribe / UnsubscribeCollection nor the sweep ever closes a channel
\* that is already closed (which panics).
C9_DoneClosedAtMostOnce ==
    \A l \in ListenerPool : listener[l].closes <= 1

\* C10: Broadcast(dbID, event) reaches the tenant-level listeners of dbID and
\* the collection-level listeners of (dbID, event.Collection) and nobody
\* else: every event a listener was ever handed is of its own tenant and, for
\* a collection-level listener, of its own collection; no listener is handed
\* the same event twice; when Broadcast returns, every listener that was
\* registered for the event from the start of the call to its end has been
\* handed the event or was skipped; and a listener is skipped only when its
\* queue holds QueueCap events.
C10_BroadcastReachesItsListeners ==
    /\ [](\A l \in ListenerPool :
             \A i \in 1..Len(listener[l].got) :
                 /\ Matches(l, listener[l].got[i])
                 /\ \A j \in 1..Len(listener[l].got) :
                       i # j => listener[l].got[i] # listener[l].got[j])
    /\ [][ /\ (bcast.pc = "collection" /\ bcast'.pc = "idle") =>
                \A l \in (bcast.dbSnap \cap databaseListeners[bcast.ev.db])
                           \cup (bcast.collSnap
                                   \cap collectionListeners[<<bcast.ev.db, bcast.ev.coll>>]) :
                    bcast.ev \in Range(listener[l].got) \/ l \in bcast.dropped
           /\ \A l \in ListenerPool :
                 l \in bcast'.dropped \ bcast.dropped =>
                     Len(listener[l].Events) = QueueCap
       ]_vars

\* Broadcast has returned; one listener was handed the event while another
\* live listener, of another tenant or another collection, was not
C10_Witness ==
    /\ bcast.pc = "idle"
    /\ \E l1, l2 \in ListenerPool :
          /\ l1 # l2
          /\ listener[l2].pc = "stream"
          /\ l2 \in Registered
          /\ \E e \in Range(listener[l1].got) :
                /\ e.seq >= 1
                /\ ~Matches(l2, e)
                /\ e \notin Range(listener[l2].got)

\* C11: Broadcast never blocks on a listener. No queue ever holds more than
\* QueueCap events; an iteration that finds a listener's queue full leaves
\* that queue as it was and notes the listener as skipped; while Broadcast is
\* in one of its loops, one of its own steps is always possible; when it
\* returns after skipping a listener, every other listener that was registered
\* for the event during the whole call has been handed it or was itself
\* skipped for a full queue; and every Broadcast that has started returns.
C11_BroadcastNeverBlocks ==
    /\ [](\A l \in ListenerPool : Len(listener[l].Events) <= QueueCap)
    /\ [](bcast.pc # "idle" => ENABLED BroadcastStep)
    /\ [][ /\ \A l \in ListenerPool :
                 (l \in bcast'.visited \ bcast.visited
                    /\ Len(listener[l].Events) = QueueCap) =>
                     /\ listener'[l].Events = listener[l].Events
                     /\ l \in bcast'.dropped
           /\ (bcast.pc = "collection" /\ bcast'.pc = "idle" /\ bcast.dropped # {}) =>
                 \A l \in ((bcast.dbSnap \cap databaseListeners[bcast.ev.db])
                            \cup (bcast.collSnap
                                    \cap collectionListeners[<<bcast.ev.db, bcast.ev.coll>>]))
                           \ bcast.dropped :
                     bcast.ev \in Range(listener[l].got)
       ]_vars
    /\ (bcast.pc # "idle") ~> (bcast.pc = "idle")

\* Broadcast is about to return: it skipped a listener whose queue holds
\* QueueCap events and handed the event to another listener
C11_Witness ==
    /\ bcast.pc = "collection"
    /\ ENABLED BroadcastReturn
    /\ \E l1, l2 \in ListenerPool :
          /\ l1 \in bcast.dropped
          /\ Len(listener[l1].Events) = QueueCap
          /\ bcast.ev \notin Range(listener[l1].Events)
          /\ l2 \notin bcast.dropped
          /\ bcast.ev \in Range(listener[l2].Events)

\* C14: the listener registries are accessed only under the broadcaster's
\* lock: while Broadcast is in the loop over a listener set it fetched, no
\* step of Subscribe, SubscribeCollection, Unsubscribe, UnsubscribeCollection
\* or the sweep changes that set.
C14_RegistriesOnlyUnderLock ==
    [][ /\ (bcast.pc = "database" /\ bcast.dbSnap # {}) =>
              databaseListeners'[bcast.ev.db] = databaseListeners[bcast.ev.db]
        /\ (bcast.pc = "collection" /\ bcast.collSnap # {}) =>
              collectionListeners'[<<bcast.ev.db, bcast.ev.coll>>]
                  = collectionListeners[<<bcast.ev.db, bcast.ev.coll>>]
      ]_vars

(***************************************************************************)
(* Claims about heartbeat and sweep, checked under SpecPing                *)
(***************************************************************************)

C13_PingingListenerNeverEvicted ==
    \A l \in ListenerPool :
        (listener[l].pc \in {"stream", "write"} /\ ~heartbeats[l].missed) =>
            /\ l \in Registered
            /\ listener[l].Done = "open"

\* an idle listener has made more heartbeats than the staleness threshold
\* holds intervals, missed none, and is still registered
C13_Witness ==
    \E l \in ListenerPool :
        /\ listener[l].pc = "stream"
        /\ heartbeats[l].made > StaleAfter
        /\ ~heartbeats[l].missed
        /\ listener[l].Events = <<>>
        /\ l \in Registered
        /\ listener[l].Done = "open"

(***************************************************************************)
(* The catalog operations of internal/database/catalog.go under concurrent *)
(* requests: CreateDatabase, CreateSchema (with the checks of              *)
(* Handler.CreateSchema) and DeleteDatabase, one step per statement. The   *)
(* catalog takes no lock and opens no transaction, so the statements of    *)
(* different requests interleave.                                          *)
(***************************************************************************)

\* a name SQLite does not take as a table name
NameOrder == <<"o", "r", "d", "e", "r">>

\* the schema names and field maps of the requests
CatNames == {NameUsers, NameOrder}
CatFieldMaps ==
    {<<>>, ("" :> "string"), ("a" :> "text"), ("a" :> "string"), ("a" :> "number")}

\* words that SQLite's parser refuses where it expects a table name
SqliteReserved == {<<"O", "R", "D", "E", "R">>, <<"T", "A", "B", "L", "E">>}

\* db.Exec(createSQL) returns an error: one of the statements names its table
\* by a reserved word
ExecFails(text) ==
    \E st \in Range(SplitStatements(text)) :
        st[1] = CreateTableKw /\ ToUpper(TableNamed(st)) \in SqliteReserved

\* a request goroutine that runs no catalog operation
IdleCat ==
    [op |-> "", pc |-> "idle", db |-> "", name |-> <<>>, fields |-> <<>>,
     status |-> 0, via |-> "", gone |-> FALSE]

\* the call of goroutine p has reached its answer
Answer(p, status) ==
    [call EXCEPT ![p] = [@ EXCEPT !.pc = "done", !.status = status, !.via = call[p].pc]]

\* the call of goroutine p moves on to its next statement
Goto(p, pc) == [call EXCEPT ![p].pc = pc]

\* authMiddleware let the request through: the tenant has a row, and the
\* response that carried its keys has been sent
Authenticated(db) ==
    /\ \E r \in databases : r.id = db
    /\ \A q \in Procs : ~(call[q].op = "CreateDatabase" /\ call[q].db = db)

\* what no catalog operation touches
CatFrame == UNCHANGED <<nextDoc, subs, lastReq, bcVars, clockVars>>

\* a rollback that is left out
RollbackDatabase_Skipped(rows, id) == rows

\* c.db.Exec("DELETE FROM databases WHERE id = ?", dbID)
RollbackDatabase(rows, id) == {r \in rows : r.id # id}

\* a rollback that is left out
RollbackSchema_Skipped(rows, db, name) == rows

\* c.db.Exec("DELETE FROM schemas WHERE database_id = ? AND name = ?", dbID, name)
RollbackSchema(rows, db, name) == {r \in rows : ~(r.db = db /\ r.name = name)}

\* a schemas table without its primary key
SchemaKeyTaken_NoPrimaryKey(db, name) == FALSE

\* PRIMARY KEY (database_id, name) of the schemas table
SchemaKeyTaken(db, name) == GetSchema(db, name) # {}

\* os.Remove(dbPath): its error
RemoveErr(fs, db) == IF db \in fs THEN "" ELSE "ENOENT"

\* a DeleteDatabase that gives up on every error of os.Remove
DeleteFails_AnyError(err) == err # ""

\* err != nil && !os.IsNotExist(err)
DeleteFails(err) == err # "" /\ err # "ENOENT"

\* CreateDatabase: the generated id and keys, and the INSERT into databases
CreateDatabaseInsert(p, id, wbody, rbody) ==
    LET row == [id |-> id, write_key |-> WriteKey(wbody), read_key |-> ReadKey(rbody)]
        clash == UniqueViolation(databases, row)
        c == [IdleCat EXCEPT !.op = "CreateDatabase", !.db = id]
    IN
    /\ call[p].pc = "idle"
    /\ id \notin retired
    /\ \A q \in Procs : call[q].db # id \/ call[q].op # "CreateDatabase"
    /\ IF clash
       THEN /\ call' = [call EXCEPT ![p] =
                           [c EXCEPT !.pc = "done", !.status = 500, !.via = "insert"]]
            /\ UNCHANGED <<databases, quotaUsed, quotaLimit>>
       ELSE /\ databases' = databases \cup {row}
            /\ quotaUsed' = [quotaUsed EXCEPT ![id] = 0]
            /\ quotaLimit' = [quotaLimit EXCEPT ![id] = DefaultQuota]
            /\ call' = [call EXCEPT ![p] = [c EXCEPT !.pc = "initfile"]]
    /\ UNCHANGED <<docs, events, retired, files, schemas, tables>>
    /\ CatFrame

\* the _collections table of a tenant's file
CollectionsTable(db) ==
    [db |-> db, name |-> <<"_", "c", "o", "l", "l", "e", "c", "t", "i", "o", "n", "s">>]

\* CreateDatabase: initDatabaseFile makes the file and its _collections table
CreateDatabaseInitFile(p, ok) ==
    /\ call[p].op = "CreateDatabase"
    /\ call[p].pc = "initfile"
    /\ IF ok
       THEN /\ files' = files \cup {call[p].db}
            /\ tables' = tables \cup {CollectionsTable(call[p].db)}
            /\ call' = Answer(p, 201)
       ELSE /\ call' = Goto(p, "rollback")
            /\ UNCHANGED <<files, tables>>
    /\ UNCHANGED <<docs, quotaUsed, quotaLimit, events, databases, retired, schemas>>
    /\ CatFrame

\* CreateDatabase: the rollback after initDatabaseFile failed
CreateDatabaseRollback(p) ==
    /\ call[p].op = "CreateDatabase"
    /\ call[p].pc = "rollback"
    /\ databases' = RollbackDatabase(databases, call[p].db)
    /\ quotaLimit' = [quotaLimit EXCEPT ![call[p].db] =
                         IF \E r \in databases' : r.id = call[p].db THEN @ ELSE 0]
    /\ call' = Answer(p, 500)
    /\ UNCHANGED <<docs, quotaUsed, events, retired, files, schemas, tables>>
    /\ CatFrame

\* Handler.CreateSchema: the request is decoded and its field map checked
CreateSchemaRequest(p, db, name, fields) ==
    LET c == [IdleCat EXCEPT !.op = "CreateSchema", !.db = db, !.name = name,
                             !.fields = fields]
    IN
    /\ call[p].pc = "idle"
    /\ Authenticated(db)
    /\ call' = [call EXCEPT ![p] =
                   IF FieldsRejected(fields)
                   THEN [c EXCEPT !.pc = "done", !.status = 400, !.via = "validate"]
                   ELSE [c EXCEPT !.pc = "check"]]
    /\ UNCHANGED <<docs, quotaUsed, quotaLimit, events, databases, retired, files,
                   schemas, tables>>
    /\ CatFrame

\* Handler.CreateSchema: "Check if schema already exists"
CreateSchemaCheck(p) ==
    /\ call[p].op = "CreateSchema"
    /\ call[p].pc = "check"
    /\ call' = IF GetSchema(call[p].db, call[p].name) # {}
               THEN Answer(p, 409)
               ELSE Goto(p, "insert")
    /\ UNCHANGED <<docs, quotaUsed, quotaLimit, events, databases, retired, files,
                   schemas, tables>>
    /\ CatFrame

\* CatalogDB.CreateSchema: its own check of the field map and the INSERT into
\* schemas; a connection that enforces foreign keys refuses the row of a
\* tenant that is gone
CreateSchemaInsert(p, enforced) ==
    LET db == call[p].db
        name == call[p].name
        refused == \/ FieldsRejected(call[p].fields)
                   \/ SchemaKeyTaken(db, name)
                   \/ enforced /\ \A r \in databases : r.id # db
    IN
    /\ call[p].op = "CreateSchema"
    /\ call[p].pc = "insert"
    /\ IF refused
       THEN /\ call' = Answer(p, 500)
            /\ UNCHANGED schemas
       ELSE /\ schemas' = schemas \cup {[db |-> db, name |-> name, fields |-> call[p].fields]}
            /\ call' = Goto(p, "provision")
    /\ UNCHANGED <<docs, quotaUsed, quotaLimit, events, databases, retired, files, tables>>
    /\ CatFrame

\* createCollectionTable: sql.Open on the tenant's path (the file is made if it
\* is missing), the CREATE TABLE, and the INSERT into _collections, a table
\* that only initDatabaseFile makes
CreateSchemaProvision(p, io) ==
    LET db == call[p].db
        createSQL == CreateTableSQL(call[p].name)
        created == ~ExecFails(createSQL) /\ io = "ok"
    IN
    /\ call[p].op = "CreateSchema"
    /\ call[p].pc = "provision"
    /\ files' = files \cup {db}
    /\ tables' = IF created
                 THEN tables \cup {[db |-> db, name |-> t] : t \in TablesCreated(createSQL)}
                 ELSE tables
    /\ schemas' = IF created /\ WipesSchemas(createSQL) THEN {} ELSE schemas
    /\ call' = IF created /\ CollectionsTable(db) \in tables
               THEN Goto(p, "broadcast")
               ELSE Goto(p, "rollback")
    /\ UNCHANGED <<docs, quotaUsed, quotaLimit, events, databases, retired>>
    /\ CatFrame

\* CatalogDB.CreateSchema: the rollback after createCollectionTable failed
CreateSchemaRollback(p) ==
    /\ call[p].op = "CreateSchema"
    /\ call[p].pc = "rollback"
    /\ schemas' = RollbackSchema(schemas, call[p].db, call[p].name)
    /\ call' = Answer(p, 500)
    /\ UNCHANGED <<docs, quotaUsed, quotaLimit, events, databases, retired, files, tables>>
    /\ CatFrame

\* CatalogDB.CreateSchema: the schema_created event, and the answer
CreateSchemaBroadcast(p) ==
    /\ call[p].op = "CreateSchema"
    /\ call[p].pc = "broadcast"
    /\ events' = Emit(DocEvent("schema_created", call[p].db, call[p].name, NoDoc))
    /\ call' = Answer(p, 201)
    /\ UNCHANGED <<docs, quotaUsed, quotaLimit, databases, retired, files, schemas, tables>>
    /\ CatFrame

\* Handler.DeleteDatabase: the request passed authMiddleware and requireWriteKey
DeleteDatabaseRequest(p, db) ==
    /\ call[p].pc = "idle"
    /\ Authenticated(db)
    /\ call' = [call EXCEPT ![p] =
                   [IdleCat EXCEPT !.op = "DeleteDatabase", !.db = db, !.pc = "remove"]]
    /\ UNCHANGED <<docs, quotaUsed, quotaLimit, events, databases, retired, files,
                   schemas, tables>>
    /\ CatFrame

\* CatalogDB.DeleteDatabase: os.Remove of the tenant's file
DeleteDatabaseRemove(p) ==
    LET db == call[p].db IN
    /\ call[p].op = "DeleteDatabase"
    /\ call[p].pc = "remove"
    /\ IF DeleteFails(RemoveErr(files, db))
       THEN /\ call' = Answer(p, 500)
            /\ UNCHANGED <<files, tables, docs>>
       ELSE /\ files' = files \ {db}
            /\ tables' = {t \in tables : t.db # db}
            /\ docs' = docs \ RowsOf(db)
            /\ call' = [call EXCEPT ![p] =
                           [@ EXCEPT !.pc = "deleterow",
                                     !.gone = db \notin files
                                              /\ \A r \in databases : r.id # db]]
    /\ UNCHANGED <<quotaUsed, quotaLimit, events, databases, retired, schemas>>
    /\ CatFrame

\* CatalogDB.DeleteDatabase: DELETE FROM databases; the schemas rows go with
\* it only on a connection that enforces foreign keys
DeleteDatabaseRow(p, enforced) ==
    LET db == call[p].db IN
    /\ call[p].op = "DeleteDatabase"
    /\ call[p].pc = "deleterow"
    /\ databases' = {r \in databases : r.id # db}
    /\ schemas' = IF enforced THEN {r \in schemas : r.db # db} ELSE schemas
    /\ quotaUsed' = [quotaUsed EXCEPT ![db] = 0]
    /\ quotaLimit' = [quotaLimit EXCEPT ![db] = 0]
    /\ retired' = retired \cup {db}
    /\ call' = Answer(p, 204)
    /\ UNCHANGED <<docs, events, files, tables>>
    /\ CatFrame

\* GET /{collection}: authMiddleware has found the tenant's row, and
\* Handler.QueryDocuments looks the schema up (handlers.go:307-316)
QueryRequest(p, db, coll) ==
    /\ call[p].pc = "idle"
    /\ Authenticated(db)
    /\ IF GetSchema(db, coll) = {}
       THEN call' = [call EXCEPT ![p] =
                        [IdleCat EXCEPT !.op = "QueryDocuments", !.db = db, !.name = coll,
                                        !.pc = "done", !.status = 404, !.via = "schema"]]
       ELSE call' = [call EXCEPT ![p] =
                        [IdleCat EXCEPT !.op = "QueryDocuments", !.db = db, !.name = coll,
                                        !.pc = "select"]]
    /\ UNCHANGED <<docs, quotaUsed, quotaLimit, events, databases, retired, files,
                   schemas, tables>>
    /\ CatFrame

\* CatalogDB.QueryDocuments (documents.go:157-188): sql.Open on the path of
\* the tenant's file and the SELECT; the driver opens the file read-write
\* and creates it when it is missing, and the SELECT on a file without the
\* table fails. InsertDocument (29-46), GetDocument and DeleteDocument open
\* the file the same way.
QuerySelect(p) ==
    LET db == call[p].db IN
    /\ call[p].op = "QueryDocuments"
    /\ call[p].pc = "select"
    /\ files' = files \cup {db}
    /\ call' = Answer(p, IF [db |-> db, name |-> call[p].name] \in tables THEN 200 ELSE 500)
    /\ UNCHANGED <<docs, quotaUsed, quotaLimit, events, databases, retired, schemas, tables>>
    /\ CatFrame

\* the response is written and the goroutine is free again
CatReturn(p) ==
    /\ call[p].pc = "done"
    /\ call[p].op \in {"CreateDatabase", "CreateSchema", "DeleteDatabase", "QueryDocuments"}
    /\ call' = [call EXCEPT ![p] = IdleCat]
    /\ UNCHANGED <<docs, quotaUsed, quotaLimit, events, databases, retired, files,
                   schemas, tables>>
    /\ CatFrame

InitCat ==
    /\ docs = {}
    /\ quotaUsed = [t \in TenantIds |-> 0]
    /\ quotaLimit = [t \in TenantIds |-> 0]
    /\ call = [p \in Procs |-> IdleCat]
    /\ nextDoc = 1
    /\ events = EmptyBag
    /\ databases = {}
    /\ retired = {}
    /\ files = {}
    /\ schemas = {}
    /\ tables = {}
    /\ subs = {}
    /\ lastReq = NoReq
    /\ ClockStopped
    /\ NewBroadcaster

NextCat ==
    \/ \E p \in Procs, id \in TenantIds, kb \in KeyBodies :
          CreateDatabaseInsert(p, id, kb, kb)
    \/ \E p \in Procs, ok \in BOOLEAN : CreateDatabaseInitFile(p, ok)
    \/ \E p \in Procs : CreateDatabaseRollback(p)
    \/ \E p \in Procs, db \in TenantIds, name \in CatNames, fields \in CatFieldMaps :
          CreateSchemaRequest(p, db, name, fields)
    \/ \E p \in Procs : CreateSchemaCheck(p)
    \/ \E p \in Procs, enforced \in BOOLEAN : CreateSchemaInsert(p, enforced)
    \/ \E p \in Procs, io \in {"ok", "fails"} : CreateSchemaProvision(p, io)
    \/ \E p \in Procs : CreateSchemaRollback(p)
    \/ \E p \in Procs : CreateSchemaBroadcast(p)
    \/ \E p \in Procs, db \in TenantIds : DeleteDatabaseRequest(p, db)
    \/ \E p \in Procs : DeleteDatabaseRemove(p)
    \/ \E p \in Procs, enforced \in BOOLEAN : DeleteDatabaseRow(p, enforced)
    \/ \E p \in Procs, db \in TenantIds : QueryRequest(p, db, NameUsers)
    \/ \E p \in Procs : QuerySelect(p)
    \/ \E p \in Procs : CatReturn(p)

SpecCat == InitCat /\ [][NextCat]_vars

(***************************************************************************)
(* Claims about the catalog operations, checked under SpecCat              *)
(***************************************************************************)

\* goroutine p takes the step and goes on with, or answers, the call it is in
StepsIn(p, op) ==
    call'[p] # call[p] /\ call'[p].op = op

\* the catalog rows, the schemas and the storage of tenant a
CatTenantState(a) ==
    <<{r \in databases : r.id = a}, {r \in schemas : r.db = a}, a \in files,
      {t \in tables : t.db = a}>>

\* C15: a schema creation for a (tenant, name) that has a schema is rejected
\* and changes nothing: the handler's check answers 409 Conflict and the
\* INSERT of a creation that lost a race fails; the catalog never holds two
\* schemas of one (tenant, name), no step replaces the field map of a schema
\* that stays, and of all creations of one (tenant, name) at most one succeeds.
C15_DuplicateSchemaRejected ==
    /\ [](\A r1, r2 \in schemas :
             (r1.db = r2.db /\ r1.name = r2.name) => r1 = r2)
    /\ [](\A db \in TenantIds, name \in CatNames :
             Emitted(DocEvent("schema_created", db, name, NoDoc)) <= 1)
    /\ [][ /\ \A p \in Procs :
                 (StepsIn(p, "CreateSchema") /\ call[p].pc \in {"check", "insert"}
                    /\ GetSchema(call[p].db, call[p].name) # {}) =>
                     /\ call'[p].pc = "done"
                     /\ call'[p].status = IF call[p].pc = "check" THEN 409 ELSE 500
                     /\ schemas' = schemas
                     /\ tables' = tables
                     /\ events' = events
           /\ \A r \in schemas, r2 \in schemas' :
                 (r2.db = r.db /\ r2.name = r.name) => r2.fields = r.fields
       ]_vars

\* a creation was answered 409 for a schema that is stored with another field
\* map, and a creation of the same name that raced with the first one was
\* refused by the INSERT
C15_Witness ==
    \E p, q \in Procs :
        /\ call[p].op = "CreateSchema" /\ call[p].status = 409
        /\ call[q].op = "CreateSchema" /\ call[q].status = 500 /\ call[q].via = "insert"
        /\ call[q].db = call[p].db /\ call[q].name = call[p].name
        /\ \E r \in GetSchema(call[p].db, call[p].name) :
              r.fields # call[p].fields /\ r.fields # call[q].fields
        /\ Emitted(DocEvent("schema_created", call[p].db, call[p].name, NoDoc)) = 1

\* C16: a CreateSchema whose field map is empty, has an empty field name or
\* has a type other than string, number and bool is answered 400 in its first
\* step, and that step stores no schema, makes no table or file and hands no
\* event to the broadcaster.
C16_InvalidFieldsWriteNothing ==
    [][ \A p \in Procs :
          (StepsIn(p, "CreateSchema")
             /\ (\/ DOMAIN call'[p].fields = {}
                 \/ \E f \in DOMAIN call'[p].fields :
                       f = "" \/ call'[p].fields[f] \notin {"string", "number", "bool"})) =>
              /\ call[p].pc = "idle"
              /\ call'[p].pc = "done"
              /\ call'[p].status = 400
              /\ schemas' = schemas
              /\ tables' = tables
              /\ files' = files
              /\ events' = events
      ]_vars

\* a field map with an empty field name was refused on a tenant that exists
C16_Witness ==
    \E p \in Procs :
        /\ call[p].op = "CreateSchema"
        /\ call[p].status = 400
        /\ "" \in DOMAIN call[p].fields
        /\ \E r \in databases : r.id = call[p].db

C19_DeleteDatabaseCascades ==
    [][ \A p \in Procs :
          (StepsIn(p, "DeleteDatabase") /\ call'[p].status = 204) =>
              /\ call[p].db \notin files'
              /\ \A r \in databases' : r.id # call[p].db
              /\ \A r \in schemas' : r.db # call[p].db
      ]_vars

\* C20: DeleteDatabase for a tenant whose file and record are already gone
\* succeeds: os.Remove's "not exist" is passed over, the call answers 204 and
\* none of its steps changes the record, schemas or storage of another tenant.
C20_DeleteDatabaseIdempotent ==
    [][ \A p \in Procs :
          (/\ StepsIn(p, "DeleteDatabase")
           /\ \/ call[p].pc = "remove" /\ call[p].db \notin files
                                      /\ \A r \in databases : r.id # call[p].db
              \/ call[p].pc = "deleterow" /\ call[p].gone) =>
              /\ call'[p].pc = IF call[p].pc = "remove" THEN "deleterow" ELSE "done"
              /\ call'[p].status = IF call[p].pc = "remove" THEN 0 ELSE 204
              /\ \A a \in TenantIds \ {call[p].db} :
                    CatTenantState(a)' = CatTenantState(a)
      ]_vars

\* a DeleteDatabase that found neither file nor record was answered 204 while
\* another tenant with a schema exists
C20_Witness ==
    \E p \in Procs :
        /\ call[p].op = "DeleteDatabase"
        /\ call[p].pc = "done"
        /\ call[p].status = 204
        /\ call[p].gone
        /\ \E r \in schemas : r.db # call[p].db /\ r.db \in files

(***************************************************************************)
(* Expiry of tenants: the last_accessed column, UpdateLastAccessed and     *)
(* GetExpiredDatabases (catalog.go:216-257), authMiddleware                *)
(* (middleware.go:23-87) and main (main.go:16-72), in clock time.          *)
(***************************************************************************)

\* how far the clock runs
MaxNow == 4

\* the length of a day, in ticks of the clock
DayLen == 2

\* cfg.ExpiryDays
ExpiryDays == 1

\* the arguments GetExpiredDatabases is called with
ExpiryArgs == {1, 2}

\* the routes of the requests in these runs: one behind requireWriteKey, one not
ExpRoutes == {"DeleteDatabase", "QueryDocuments"}

\* the key bodies generated for a tenant
ExpKeyBody(id) == IF id = "t1" THEN "k1" ELSE "k2"

\* a goroutine that serves no request
IdleExp ==
    [op |-> "", pc |-> "idle", db |-> "", isWrite |-> FALSE, status |-> 0,
     touched |-> "", days |-> 0, ids |-> {}, at |-> 0]

\* a query that takes the cutoff itself for expired
GetExpiredDatabases_Inclusive(expiryDays) ==
    LET cutoff == now - expiryDays * DayLen
    IN  {r.id : r \in {x \in databases : lastAccessed[x.id] <= cutoff}}

\* cutoff := time.Now().AddDate(0, 0, -expiryDays).Unix();
\* SELECT id FROM databases WHERE last_accessed < cutoff
GetExpiredDatabases(expiryDays) ==
    LET cutoff == now - expiryDays * DayLen
    IN  {r.id : r \in {x \in databases : lastAccessed[x.id] < cutoff}}

\* a middleware that gives the request up when the UPDATE fails
AfterTouch_Abort(err) == IF err THEN "done" ELSE "route"

\* authMiddleware after UpdateLastAccessed: the error is dropped and
\* next.ServeHTTP is called
AfterTouch(err) == "route"

\* the last_accessed column without the row of tenant db
WithoutTenant(db) == [t \in DOMAIN lastAccessed \ {db} |-> lastAccessed[t]]

\* what these runs leave alone
ExpFrame ==
    UNCHANGED <<storeVars, files, schemas, tables, subs, lastReq, bcVars>>

\* time passes
ClockTick ==
    /\ now < MaxNow
    /\ now' = now + 1
    /\ UNCHANGED <<call, databases, retired, lastAccessed>>
    /\ ExpFrame

\* CatalogDB.CreateDatabase: the row is inserted with last_accessed = now
CreateDatabaseAt(id) ==
    /\ id \notin retired
    /\ \A r \in databases : r.id # id
    /\ databases' = databases \cup
           {[id |-> id, write_key |-> WriteKey(ExpKeyBody(id)),
             read_key |-> ReadKey(ExpKeyBody(id))]}
    /\ lastAccessed' = (id :> now) @@ lastAccessed
    /\ UNCHANGED <<call, retired, now>>
    /\ ExpFrame

\* authMiddleware, up to the check of the URL id: a request that is turned
\* away is answered, one that authenticates goes on to UpdateLastAccessed
AuthRequest(p, route, key, urlId) ==
    LET auth == authMiddleware(key, urlId)
        c == [IdleExp EXCEPT !.op = route]
    IN
    /\ call[p].pc = "idle"
    /\ call' = [call EXCEPT ![p] =
                   IF auth.status # 200
                   THEN [c EXCEPT !.pc = "done", !.status = auth.status]
                   ELSE [c EXCEPT !.pc = "touch", !.db = auth.db,
                                  !.isWrite = auth.isWrite]]
    /\ UNCHANGED <<databases, retired, clockVars>>
    /\ ExpFrame

\* catalog.UpdateLastAccessed(db.ID): UPDATE databases SET last_accessed = now
\* WHERE id = ?; the statement may fail, and it changes nothing when the row
\* is gone
UpdateLastAccessed(p, err) ==
    LET db == call[p].db IN
    /\ call[p].pc = "touch"
    /\ lastAccessed' = IF ~err /\ db \in DOMAIN lastAccessed
                       THEN [lastAccessed EXCEPT ![db] = now]
                       ELSE lastAccessed
    /\ call' = [call EXCEPT ![p] =
                   [@ EXCEPT !.pc = AfterTouch(err),
                             !.touched = IF err THEN "failed" ELSE "ok",
                             !.status = IF AfterTouch(err) = "done" THEN 500 ELSE 0]]
    /\ UNCHANGED <<databases, retired, now>>
    /\ ExpFrame

\* next.ServeHTTP: requireWriteKey on the routes that have it, then the
\* handler; DeleteDatabase removes the tenant's row
ServeRoute(p) ==
    LET c == call[p]
        allowed == c.op \notin WriteRoutes \/ requireWriteKey(c)
    IN
    /\ c.pc = "route"
    /\ IF ~allowed
       THEN /\ call' = [call EXCEPT ![p] = [c EXCEPT !.pc = "done", !.status = 403]]
            /\ UNCHANGED <<databases, retired, lastAccessed>>
       ELSE IF c.op = "DeleteDatabase"
       THEN /\ databases' = {r \in databases : r.id # c.db}
            /\ lastAccessed' = WithoutTenant(c.db)
            /\ retired' = retired \cup {c.db}
            /\ call' = [call EXCEPT ![p] = [c EXCEPT !.pc = "done", !.status = 204]]
       ELSE /\ call' = [call EXCEPT ![p] = [c EXCEPT !.pc = "done", !.status = 200]]
            /\ UNCHANGED <<databases, retired, lastAccessed>>
    /\ UNCHANGED now
    /\ ExpFrame

\* GetExpiredDatabases as a caller of the catalog gets it; the server itself
\* has no caller of it
ListExpired(p, expiryDays) ==
    /\ call[p].pc = "idle"
    /\ call' = [call EXCEPT ![p] =
                   [IdleExp EXCEPT !.op = "GetExpiredDatabases", !.pc = "done",
                                   !.days = expiryDays, !.at = now,
                                   !.ids = GetExpiredDatabases(expiryDays)]]
    /\ UNCHANGED <<databases, retired, clockVars>>
    /\ ExpFrame

\* the answer is written and the goroutine is free again
ExpReturn(p) ==
    /\ call[p].pc = "done"
    /\ call' = [call EXCEPT ![p] = IdleExp]
    /\ UNCHANGED <<databases, retired, clockVars>>
    /\ ExpFrame

\* main: the catalog is opened and the server listens; nothing else is started
InitExp ==
    /\ docs = {}
    /\ quotaUsed = [t \in TenantIds |-> 0]
    /\ quotaLimit = [t \in TenantIds |-> 0]
    /\ call = [p \in Procs |-> IdleExp]
    /\ nextDoc = 1
    /\ events = EmptyBag
    /\ databases = {}
    /\ retired = {}
    /\ files = {}
    /\ schemas = {}
    /\ tables = {}
    /\ subs = {}
    /\ lastReq = NoReq
    /\ ClockStopped
    /\ NewBroadcaster

\* a step of a request that is being served
RequestStep ==
    \/ \E p \in Procs, err \in BOOLEAN : UpdateLastAccessed(p, err)
    \/ \E p \in Procs : ServeRoute(p)
    \/ \E p \in Procs : ExpReturn(p)

NextExp ==
    \/ ClockTick
    \/ \E id \in TenantIds : CreateDatabaseAt(id)
    \/ \E p \in Procs, route \in ExpRoutes, key \in PresentedKeys, urlId \in TenantIds :
          AuthRequest(p, route, key, urlId)
    \/ \E p \in Procs, err \in BOOLEAN : UpdateLastAccessed(p, err)
    \/ \E p \in Procs : ServeRoute(p)
    \/ \E p \in Procs, d \in ExpiryArgs : ListExpired(p, d)
    \/ \E p \in Procs : ExpReturn(p)

SpecExp == InitExp /\ [][NextExp]_vars

\* the clock runs on and every request that was begun is served to its end
SpecExpFair == SpecExp /\ WF_vars(ClockTick) /\ WF_vars(RequestStep)

(***************************************************************************)
(* Claims about expiry, checked under SpecExp and SpecExpFair              *)
(***************************************************************************)

\* how long tenant t has not been accessed
IdleFor(t) == now - lastAccessed[t]

\* C21: GetExpiredDatabases(d) returns exactly the tenants that have not been
\* accessed for more than d days: each of them is in the list, and no tenant
\* accessed within the last d days (the cutoff instant included) is.
C21_ExpiredExactlyTheIdle ==
    [][ \A p \in Procs :
          (call[p].pc = "idle" /\ call'[p].op = "GetExpiredDatabases") =>
              /\ \A r \in databases :
                    r.id \in call'[p].ids <=> IdleFor(r.id) > call'[p].days * DayLen
              /\ call'[p].ids \subseteq {r.id : r \in databases}
      ]_vars

\* a call listed one tenant and left out another that was accessed exactly
\* at the cutoff
C21_Witness ==
    \E p \in Procs, t \in DOMAIN lastAccessed :
        /\ call[p].op = "GetExpiredDatabases"
        /\ call[p].at = now
        /\ call[p].ids # {}
        /\ t \notin call[p].ids
        /\ IdleFor(t) = call[p].days * DayLen

\* C22: a tenant that has not been accessed for longer than ExpiryDays is
\* eventually deleted, unless it is accessed again.
C22_IdleTenantEventuallyDeleted ==
    \A t \in TenantIds :
        (t \in DOMAIN lastAccessed /\ IdleFor(t) > ExpiryDays * DayLen)
            ~> (t \notin DOMAIN lastAccessed \/ IdleFor(t) <= ExpiryDays * DayLen)

\* C23: a request that authenticates goes through UpdateLastAccessed before
\* its route is served: the step sets the tenant's last_accessed to the
\* current time when the UPDATE succeeds, and the route is served next
\* whether it succeeded or failed.
C23_AccessTouchesBeforeServing ==
    [][ \A p \in Procs :
          /\ (call[p].pc = "idle" /\ call'[p].op \in ExpRoutes
                /\ call'[p].status \notin {401, 403}) =>
                 call'[p].pc = "touch"
          /\ (call'[p].pc = "route" /\ call[p].pc # "route") => call[p].pc = "touch"
          /\ (call[p].pc = "touch" /\ call'[p] # call[p]) =>
                 /\ call'[p].pc = "route"
                 /\ (call'[p].touched = "ok" /\ call[p].db \in DOMAIN lastAccessed) =>
                        lastAccessed'[call[p].db] = now
          /\ (call'[p].pc = "done" /\ call[p].pc # "done" /\ call'[p].op \in ExpRoutes
                /\ call'[p].status \in {200, 204}) =>
                 call[p].pc = "route" /\ call[p].touched \in {"ok", "failed"}
      ]_vars

\* a request was served to its end although its UPDATE of last_accessed had
\* failed, and one whose UPDATE went through left the tenant's last_accessed
\* at the current time
C23_Witness ==
    \E p, q \in Procs :
        /\ call[p].pc = "done" /\ call[p].status = 200 /\ call[p].touched = "failed"
        /\ call[q].pc = "route" /\ call[q].touched = "ok"
        /\ call[q].db \in DOMAIN lastAccessed
        /\ lastAccessed[call[q].db] = now
        /\ now > 0

(***************************************************************************)
(* The content of documents: Handler.InsertDocument (handlers.go:103-158), *)
(* InsertDocument, GetDocument, QueryDocuments with matchesFilters, and    *)
(* DeleteDocument (documents.go:14-341), with the documents' data, their   *)
(* JSON text and their created_at, in clock seconds.                       *)
(***************************************************************************)

\* how many documents one run inserts, and how far its clock runs
MaxDataDocs == 3
MaxSeconds == 2

\* the quota of the tenant of these runs: two documents fit, three do not
DataQuota == 32

DataTenant == "t1"

\* decoded JSON values, as json.Decoder hands them to the handler
StringValue(chars) == [kind |-> "string", v |-> chars]
NumberValue(n) == [kind |-> "number", v |-> n]
BoolValue(b) == [kind |-> "bool", v |-> b]
NullValue == [kind |-> "null", v |-> 0]

Quote == "\""
Backslash == "\\"

\* the schema of the collection, drawn at the start of a run
DataSchemas ==
    {("n" :> "number") @@ ("s" :> "string"), ("b" :> "bool")}

\* the data maps of the requests
DataMaps ==
    {<<>>,
     ("n" :> NumberValue(1)) @@ ("s" :> StringValue(<<"x">>)),
     ("n" :> NumberValue(12)) @@ ("s" :> StringValue(<<"1">>)),
     ("n" :> NumberValue(1)) @@ ("s" :> StringValue(<<Quote>>)),
     ("s" :> StringValue(<<"x">>)),
     ("n" :> NumberValue(1)) @@ ("s" :> StringValue(<<"x">>)) @@ ("x" :> BoolValue(TRUE)),
     ("n" :> StringValue(<<"1">>)) @@ ("s" :> StringValue(<<"x">>)),
     ("n" :> NullValue) @@ ("s" :> StringValue(<<"x">>)),
     ("b" :> BoolValue(TRUE)),
     ("b" :> StringValue(<<"t", "r", "u", "e">>))}

\* the keys of a map in the order json.Marshal writes them
FieldOrder == <<"b", "n", "s", "x">>

RECURSIVE Escape(_)
\* the body of a JSON string: quotes and backslashes are escaped
Escape(chars) ==
    IF chars = <<>> THEN <<>>
    ELSE (IF Head(chars) \in {Quote, Backslash}
          THEN <<Backslash, Head(chars)>>
          ELSE <<Head(chars)>>) \o Escape(Tail(chars))

\* a decoder that leaves the escapes in the string
Unescape_Raw(chars) == chars

RECURSIVE Unescape(_)
\* the string a JSON string body stands for
Unescape(chars) ==
    IF chars = <<>> THEN <<>>
    ELSE IF Head(chars) = Backslash /\ Len(chars) > 1
         THEN <<chars[2]>> \o Unescape(Tail(Tail(chars)))
         ELSE <<Head(chars)>> \o Unescape(Tail(chars))

DigitChars == <<"0", "1", "2", "3", "4", "5", "6", "7", "8", "9">>

RECURSIVE FormatInt(_)
\* the decimal digits of a natural number
FormatInt(n) ==
    IF n < 10 THEN <<DigitChars[n + 1]>>
    ELSE FormatInt(n \div 10) \o <<DigitChars[(n % 10) + 1]>>

IsDigit(ch) == \E i \in 1..10 : DigitChars[i] = ch

DigitValue(ch) == (CHOOSE i \in 1..10 : DigitChars[i] = ch) - 1

RECURSIVE ParseInt(_, _)
\* the number a run of digits stands for, read left to right
ParseInt(chars, acc) ==
    IF chars = <<>> THEN acc
    ELSE ParseInt(Tail(chars), acc * 10 + DigitValue(Head(chars)))

TrueText == <<"t", "r", "u", "e">>
FalseText == <<"f", "a", "l", "s", "e">>
NullText == <<"n", "u", "l", "l">>

\* json.Marshal of one value
EncodeValue(val) ==
    CASE val.kind = "string" -> <<Quote>> \o Escape(val.v) \o <<Quote>>
      [] val.kind = "number" -> FormatInt(val.v)
      [] val.kind = "bool" -> IF val.v THEN TrueText ELSE FalseText
      [] OTHER -> NullText

\* json.Unmarshal of one value into interface{}
DecodeValue(text) ==
    IF Head(text) = Quote
    THEN StringValue(Unescape(SubSeq(text, 2, Len(text) - 1)))
    ELSE IF text = TrueText THEN BoolValue(TRUE)
    ELSE IF text = FalseText THEN BoolValue(FALSE)
    ELSE IF text = NullText THEN NullValue
    ELSE NumberValue(ParseInt(text, 0))

\* json.Marshal(data): the members of the object, keys sorted
Marshal(data) ==
    LET keys == SelectSeq(FieldOrder, LAMBDA k : k \in DOMAIN data)
    IN  [i \in 1..Len(keys) |-> [name |-> keys[i], text |-> EncodeValue(data[keys[i]])]]

\* json.Unmarshal([]byte(dataJSON), &doc.Data)
Unmarshal(json) ==
    [k \in {json[i].name : i \in 1..Len(json)} |->
        DecodeValue(json[CHOOSE i \in 1..Len(json) : json[i].name = k].text)]

RECURSIVE MembersLen(_)
\* per member the quoted key (one letter), the colon and the value
MembersLen(json) ==
    IF json = <<>> THEN 0
    ELSE 4 + Len(Head(json).text) + MembersLen(Tail(json))

\* len(dataJSON): the braces, the members and the commas between them
JsonLen(json) ==
    IF json = <<>> THEN 2
    ELSE 2 + MembersLen(json) + (Len(json) - 1)

\* strconv.ParseFloat(filterValue, 64): digits, with ".0" or without
ParseFloat(text) ==
    LET whole == IF Len(text) > 2 /\ SubSeq(text, Len(text) - 1, Len(text)) = <<".", "0">>
                 THEN SubSeq(text, 1, Len(text) - 2)
                 ELSE text
    IN  IF whole # <<>> /\ \A i \in 1..Len(whole) : IsDigit(whole[i])
        THEN [ok |-> TRUE, v |-> ParseInt(whole, 0)]
        ELSE [ok |-> FALSE, v |-> 0]

\* strconv.ParseBool(filterValue)
ParseBool(text) ==
    IF text \in {<<"1">>, <<"t">>, <<"T">>, TrueText, <<"T", "R", "U", "E">>,
                 <<"T", "r", "u", "e">>}
    THEN [ok |-> TRUE, v |-> TRUE]
    ELSE IF text \in {<<"0">>, <<"f">>, <<"F">>, FalseText, <<"F", "A", "L", "S", "E">>,
                      <<"F", "a", "l", "s", "e">>}
    THEN [ok |-> TRUE, v |-> FALSE]
    ELSE [ok |-> FALSE, v |-> FALSE]

\* matchesValue: the filter value is read as the type of the field value
matchesValue(fieldValue, filterValue) ==
    CASE fieldValue.kind = "string" -> fieldValue.v = filterValue
      [] fieldValue.kind = "number" ->
            ParseFloat(filterValue).ok /\ fieldValue.v = ParseFloat(filterValue).v
      [] fieldValue.kind = "bool" ->
            ParseBool(filterValue).ok /\ fieldValue.v = ParseBool(filterValue).v
      [] OTHER -> filterValue = <<"<", "n", "i", "l", ">">>

\* a loop that is content with one field that matches
MatchLoop_AnyField(data, filters, rest) ==
    \E f \in rest :
        f \in DOMAIN data /\ \E i \in 1..Len(filters[f]) : matchesValue(data[f], filters[f][i])

RECURSIVE MatchLoop(_, _, _)
\* matchesFilters, the range over the filter map: a field without values is
\* passed over, a field the document lacks or none of whose values matches ends
\* the loop with false
MatchLoop(data, filters, rest) ==
    IF rest = {} THEN TRUE
    ELSE LET fieldName == CHOOSE f \in rest : TRUE
             filterValues == filters[fieldName]
         IN  IF Len(filterValues) = 0
             THEN MatchLoop(data, filters, rest \ {fieldName})
             ELSE IF fieldName \notin DOMAIN data THEN FALSE
             ELSE IF ~\E i \in 1..Len(filterValues) :
                         matchesValue(data[fieldName], filterValues[i])
             THEN FALSE
             ELSE MatchLoop(data, filters, rest \ {fieldName})

\* matchesFilters
matchesFilters(data, filters) ==
    IF DOMAIN filters = {} THEN TRUE
    ELSE MatchLoop(data, filters, DOMAIN filters)

\* the filter maps QueryDocuments is called with
FilterArgs ==
    {<<>>,
     ("s" :> <<<<"x">>>>),
     ("s" :> <<<<"x">>, <<"1">>>>),
     ("n" :> <<<<"1">>>>) @@ ("s" :> <<<<"x">>>>),
     ("n" :> <<<<"1", ".", "0">>>>),
     ("b" :> <<<<"t">>>>),
     ("s" :> <<>>),
     ("x" :> <<TrueText>>)}

\* the limits and offsets Handler.QueryDocuments passes on: limit is 1..1000
\* (100 without a parameter), offset is 0 or more
LimitArgs == {1, 2, 100}
OffsetArgs == {0, 1}

\* the rows of a collection
RowsIn(coll) == {r \in docs : r.db = DataTenant /\ r.coll = coll}

\* the answers SQLite may give to SELECT ... FROM <collection> ORDER BY
\* created_at DESC: rows of one created_at come in an order it does not fix
Ordered(coll) ==
    LET rows == RowsIn(coll)
        n == Cardinality(rows)
    IN  {s \in [1..n -> rows] :
            /\ \A i, j \in 1..n : i # j => s[i] # s[j]
            /\ \A i, j \in 1..n : i < j => s[i].created_at >= s[j].created_at}

\* a window that skips the offset and takes every row after it
Window_NoLimit(seq, limit, offset) ==
    SubSeq(seq, offset + 1, Len(seq))

\* LIMIT limit OFFSET offset
Window(seq, limit, offset) ==
    SubSeq(seq, offset + 1,
           IF offset + limit < Len(seq) THEN offset + limit ELSE Len(seq))

\* models.Document as GetDocument and QueryDocuments build it from a row
DocumentOf(r) ==
    [id |-> r.id, coll |-> r.coll, data |-> Unmarshal(r.json), created_at |-> r.created_at]

NoDocument == [id |-> NoDoc, coll |-> <<>>, data |-> <<>>, created_at |-> 0]

\* an event that leaves the data out
DataEvent_NoData(type, coll, id, data) ==
    [type |-> type, db |-> DataTenant, coll |-> coll, id |-> id, data |-> <<>>]

\* models.ChangeEvent with its data
DataEvent(type, coll, id, data) ==
    [type |-> type, db |-> DataTenant, coll |-> coll, id |-> id, data |-> data]

IdleData ==
    [op |-> "", pc |-> "idle", coll |-> <<>>, data |-> <<>>, id |-> NoDoc,
     status |-> 0, doc |-> NoDocument, result |-> <<>>, limit |-> 0, offset |-> 0,
     filters |-> <<>>, at |-> 0]

DataFrame ==
    UNCHANGED <<quotaLimit, databases, retired, files, schemas, tables, subs, lastReq,
                bcVars, lastAccessed>>

\* the collections the requests name: the first has a schema, the second none
DataColls == {NameUsers, NameOrder}

\* the goroutine whose requests these runs follow, one call after the other;
\* calls that run side by side are followed under SpecDoc
DataProcs == {"p1"}

\* a goroutine's call goes on to pc
DataGoto(p, pc) == [call EXCEPT ![p].pc = pc]

\* a goroutine's call is answered
DataAnswer(p, status) == [call EXCEPT ![p].pc = "done", ![p].status = status]

\* Handler.InsertDocument: the body is decoded, the schema looked up and the
\* data validated against it
InsertRequest(p, coll, data) ==
    LET schema == GetSchema(DataTenant, coll)
        c == [IdleData EXCEPT !.op = "InsertDocument", !.coll = coll, !.data = data]
    IN
    /\ call[p].pc = "idle"
    /\ call' = [call EXCEPT ![p] =
                   IF DOMAIN data = {} THEN [c EXCEPT !.pc = "done", !.status = 400]
                   ELSE IF schema = {} THEN [c EXCEPT !.pc = "done", !.status = 404]
                   ELSE IF ~ValidateDocument(data, (CHOOSE r \in schema : TRUE).fields)
                   THEN [c EXCEPT !.pc = "done", !.status = 400]
                   ELSE [c EXCEPT !.pc = "exec"]]
    /\ UNCHANGED <<docs, quotaUsed, nextDoc, events, now>>
    /\ DataFrame

\* InsertDocument: the id, json.Marshal, time.Now().Unix() and the INSERT
InsertExec(p) ==
    LET dataJSON == Marshal(call[p].data) IN
    /\ call[p].op = "InsertDocument"
    /\ call[p].pc = "exec"
    /\ nextDoc <= MaxDataDocs
    /\ docs' = docs \cup {[id |-> nextDoc, db |-> DataTenant, coll |-> call[p].coll,
                           size |-> JsonLen(dataJSON), json |-> dataJSON,
                           created_at |-> now]}
    /\ nextDoc' = nextDoc + 1
    /\ call' = [call EXCEPT ![p].pc = "quota", ![p].id = nextDoc, ![p].at = now]
    /\ UNCHANGED <<quotaUsed, events, now>>
    /\ DataFrame

\* updateQuotaAfterInsert: the size is charged, or the quota is exceeded, the
\* row deleted again and the request answered 402
InsertQuota(p) ==
    LET c == call[p]
        documentSize == JsonLen(Marshal(c.data))
    IN
    /\ c.op = "InsertDocument"
    /\ c.pc = "quota"
    /\ IF QuotaExceeded(quotaUsed[DataTenant], documentSize, quotaLimit[DataTenant])
       THEN /\ docs' = RollbackInsert(docs, DataTenant, c.coll, c.id)
            /\ call' = DataAnswer(p, 402)
            /\ UNCHANGED quotaUsed
       ELSE /\ quotaUsed' = [quotaUsed EXCEPT ![DataTenant] = @ + documentSize]
            /\ call' = DataGoto(p, "broadcast")
            /\ UNCHANGED docs
    /\ UNCHANGED <<nextDoc, events, now>>
    /\ DataFrame

\* InsertDocument: the document that is returned and the insert event
InsertBroadcast(p) ==
    LET c == call[p] IN
    /\ c.op = "InsertDocument"
    /\ c.pc = "broadcast"
    /\ events' = Emit(DataEvent("insert", c.coll, c.id, c.data))
    /\ call' = [call EXCEPT ![p] =
                   [c EXCEPT !.pc = "done", !.status = 201,
                             !.doc = [id |-> c.id, coll |-> c.coll, data |-> c.data,
                                      created_at |-> c.at]]]
    /\ UNCHANGED <<docs, quotaUsed, nextDoc, now>>
    /\ DataFrame

\* CatalogDB.GetDocument
DataGet(p, coll, id) ==
    LET rows == {r \in RowsIn(coll) : r.id = id}
        c == [IdleData EXCEPT !.op = "GetDocument", !.coll = coll, !.id = id, !.pc = "done"]
    IN
    /\ call[p].pc = "idle"
    /\ GetSchema(DataTenant, coll) # {}
    /\ call' = [call EXCEPT ![p] =
                   IF rows = {} THEN [c EXCEPT !.status = 404]
                   ELSE [c EXCEPT !.status = 200,
                                  !.doc = DocumentOf(CHOOSE r \in rows : TRUE)]]
    /\ UNCHANGED <<docs, quotaUsed, nextDoc, events, now>>
    /\ DataFrame

\* CatalogDB.QueryDocuments: the ordered rows, the window of LIMIT and OFFSET,
\* and the filter applied to the rows of the window
DataQuery(p, coll, limit, offset, filters) ==
    /\ call[p].pc = "idle"
    /\ GetSchema(DataTenant, coll) # {}
    /\ \E rows \in Ordered(coll) :
          LET window == Window(rows, limit, offset)
              documents == [i \in 1..Len(window) |-> DocumentOf(window[i])]
          IN  call' = [call EXCEPT ![p] =
                          [IdleData EXCEPT !.op = "QueryDocuments", !.coll = coll,
                                           !.pc = "done", !.status = 200,
                                           !.limit = limit, !.offset = offset,
                                           !.filters = filters,
                                           !.result = SelectSeq(documents,
                                               LAMBDA d : matchesFilters(d.data, filters))]]
    /\ UNCHANGED <<docs, quotaUsed, nextDoc, events, now>>
    /\ DataFrame

\* CatalogDB.DeleteDocument
DataDelete(p, coll, id) ==
    LET rows == {r \in RowsIn(coll) : r.id = id}
        c == [IdleData EXCEPT !.op = "DeleteDocument", !.coll = coll, !.id = id, !.pc = "done"]
    IN
    /\ call[p].pc = "idle"
    /\ GetSchema(DataTenant, coll) # {}
    /\ IF rows = {}
       THEN /\ call' = [call EXCEPT ![p] = [c EXCEPT !.status = 404]]
            /\ UNCHANGED <<docs, quotaUsed, events>>
       ELSE /\ docs' = docs \ rows
            /\ quotaUsed' = [quotaUsed EXCEPT ![DataTenant] =
                                QuotaAfterDelete(@, (CHOOSE r \in rows : TRUE).size)]
            /\ events' = Emit(DataEvent("delete", coll, id, <<>>))
            /\ call' = [call EXCEPT ![p] = [c EXCEPT !.status = 204]]
    /\ UNCHANGED <<nextDoc, now>>
    /\ DataFrame

\* a second passes
DataTick ==
    /\ now < MaxSeconds
    /\ now' = now + 1
    /\ UNCHANGED <<docs, quotaUsed, nextDoc, events, call>>
    /\ DataFrame

\* the answer is written and the goroutine is free again
DataReturn(p) ==
    /\ call[p].pc = "done"
    /\ call' = [call EXCEPT ![p] = IdleData]
    /\ UNCHANGED <<docs, quotaUsed, nextDoc, events, now>>
    /\ DataFrame

\* one tenant with one collection whose schema is drawn from DataSchemas
InitData ==
    /\ docs = {}
    /\ quotaUsed = [t \in TenantIds |-> 0]
    /\ quotaLimit = [t \in TenantIds |-> IF t = DataTenant THEN DataQuota ELSE 0]
    /\ call = [p \in Procs |-> IdleData]
    /\ nextDoc = 1
    /\ events = EmptyBag
    /\ databases = {[id |-> DataTenant, write_key |-> WriteKey("k1"),
                     read_key |-> ReadKey("k1")]}
    /\ retired = {}
    /\ files = {DataTenant}
    /\ \E fields \in DataSchemas :
          schemas = {[db |-> DataTenant, name |-> NameUsers, fields |-> fields]}
    /\ tables = {[db |-> DataTenant, name |-> NameUsers]}
    /\ subs = {}
    /\ lastReq = NoReq
    /\ ClockStopped
    /\ NewBroadcaster

NextData ==
    \/ \E p \in DataProcs, coll \in DataColls, data \in DataMaps : InsertRequest(p, coll, data)
    \/ \E p \in DataProcs : InsertExec(p)
    \/ \E p \in DataProcs : InsertQuota(p)
    \/ \E p \in DataProcs : InsertBroadcast(p)
    \/ \E p \in DataProcs, id \in 1..MaxDataDocs : DataGet(p, NameUsers, id)
    \/ \E p \in DataProcs, limit \in LimitArgs, offset \in OffsetArgs, filters \in FilterArgs :
          DataQuery(p, NameUsers, limit, offset, filters)
    \/ \E p \in DataProcs, id \in 1..MaxDataDocs : DataDelete(p, NameUsers, id)
    \/ DataTick
    \/ \E p \in DataProcs : DataReturn(p)

SpecData == InitData /\ [][NextData]_vars

(***************************************************************************)
(* Claims about the content of documents, checked under SpecData           *)
(***************************************************************************)

\* the fields of the schema of a collection
FieldsOf(coll) == (CHOOSE r \in GetSchema(DataTenant, coll) : TRUE).fields

\* every field of data is declared with a value of the declared type, and
\* every declared field is in data
Conforms(data, fields) ==
    /\ \A f \in DOMAIN data :
          /\ f \in DOMAIN fields
          /\ \/ fields[f] = "string" /\ data[f].kind = "string"
             \/ fields[f] = "number" /\ data[f].kind = "number"
             \/ fields[f] = "bool" /\ data[f].kind = "bool"
    /\ DOMAIN fields \subseteq DOMAIN data

\* C24: an insert into a collection with a schema goes on to its INSERT
\* exactly when every field of its data is declared with a value of the
\* declared type and every declared field is present; a request that is
\* refused stores no document, charges no quota and emits no event, and a
\* row is only ever written by a call whose data conforms.
C24_ValidationGuardsInsert ==
    [][ /\ \A p \in DataProcs :
              (call[p].pc = "idle" /\ call'[p].op = "InsertDocument"
                 /\ GetSchema(DataTenant, call'[p].coll) # {}) =>
                  /\ call'[p].pc = "exec" <=>
                        Conforms(call'[p].data, FieldsOf(call'[p].coll))
                  /\ call'[p].pc # "exec" =>
                        /\ call'[p].pc = "done" /\ call'[p].status = 400
                        /\ docs' = docs
                        /\ quotaUsed' = quotaUsed
                        /\ events' = events
        /\ ~(docs' \subseteq docs) =>
              \E p \in DataProcs :
                  /\ call[p].pc = "exec"
                  /\ Conforms(call[p].data, FieldsOf(call[p].coll))
      ]_vars

\* data with every declared field, one of them of the wrong type, was refused
\* after a document had been stored
C24_Witness ==
    \E p \in DataProcs :
        /\ call[p].op = "InsertDocument"
        /\ call[p].status = 400
        /\ call[p].coll = NameUsers
        /\ DOMAIN call[p].data = DOMAIN FieldsOf(NameUsers)
        /\ docs # {}

\* the insert events handed over for document id
InsertEvents(id) == {e \in BagToSet(events) : e.type = "insert" /\ e.id = id}

\* document id has been deleted
Deleted(id) == \E e \in BagToSet(events) : e.type = "delete" /\ e.id = id

\* C25: GetDocument for the id of a document that was inserted (and not
\* deleted since) returns that document: the id, the collection and the
\* field values that were submitted.
C25_GetReturnsWhatWasInserted ==
    [][ \A p \in DataProcs :
          (call[p].pc = "idle" /\ call'[p].op = "GetDocument") =>
              \A e \in InsertEvents(call'[p].id) :
                  (e.coll = call'[p].coll /\ ~Deleted(e.id)) =>
                      /\ call'[p].status = 200
                      /\ call'[p].doc.id = e.id
                      /\ call'[p].doc.coll = e.coll
                      /\ call'[p].doc.data = e.data
      ]_vars

\* a document with a string that needs escaping and a number came back
C25_Witness ==
    \E p \in DataProcs :
        /\ call[p].op = "GetDocument"
        /\ call[p].status = 200
        /\ DOMAIN call[p].doc.data = {"n", "s"}
        /\ call[p].doc.data["s"] = StringValue(<<Quote>>)
        /\ call[p].doc.data["n"] = NumberValue(1)
        /\ InsertEvents(call[p].id) # {}

\* for every filtered field with at least one value the document has the
\* field, and its value matches one of the values
Selected(data, filters) ==
    \A f \in DOMAIN filters :
        Len(filters[f]) >= 1 =>
            /\ f \in DOMAIN data
            /\ \E i \in 1..Len(filters[f]) : matchesValue(data[f], filters[f][i])

\* C26: matchesFilters holds of a document exactly when, for every filtered
\* field with at least one value, the document has the field with a value
\* that equals one of the listed values; QueryDocuments returns only such
\* documents, and all of them when its window holds the whole collection.
C26_FiltersAndOfOrs ==
    /\ [](\A r \in docs : \A filters \in FilterArgs :
             ("json" \in DOMAIN r) =>
                 (matchesFilters(Unmarshal(r.json), filters)
                      <=> Selected(Unmarshal(r.json), filters)))
    /\ [][ \A p \in DataProcs :
             (call[p].pc = "idle" /\ call'[p].op = "QueryDocuments") =>
                 /\ \A i \in 1..Len(call'[p].result) :
                       Selected(call'[p].result[i].data, call'[p].filters)
                 /\ (call'[p].offset = 0 /\ call'[p].limit >= Cardinality(RowsIn(call'[p].coll))) =>
                       \A r \in RowsIn(call'[p].coll) :
                           Selected(Unmarshal(r.json), call'[p].filters) =>
                               \E i \in 1..Len(call'[p].result) :
                                   call'[p].result[i].id = r.id
         ]_vars

\* a filter with two values for one field kept the document that matches the
\* second value and dropped the other document of the collection
C26_Witness ==
    \E p \in DataProcs :
        /\ call[p].op = "QueryDocuments"
        /\ call[p].filters = ("s" :> <<<<"x">>, <<"1">>>>)
        /\ Len(call[p].result) = 1
        /\ "s" \in DOMAIN call[p].result[1].data
        /\ call[p].result[1].data["s"] = StringValue(<<"1">>)
        /\ Cardinality(RowsIn(call[p].coll)) = 2
        /\ call[p].limit = 100

\* C27: QueryDocuments lists the documents most recent first: of two
\* documents in its answer the one inserted later (the higher id) comes
\* first; and the answer is taken from the window that skips offset documents
\* of the collection and holds at most limit of them.
C27_NewestFirstWindow ==
    [][ \A p \in DataProcs :
          (call[p].pc = "idle" /\ call'[p].op = "QueryDocuments") =>
              LET result == call'[p].result
                  n == Cardinality(RowsIn(call'[p].coll))
              IN  /\ \A i, j \in 1..Len(result) : i < j => result[i].id > result[j].id
                  /\ Len(result) <= call'[p].limit
                  /\ Len(result) <= (IF n > call'[p].offset THEN n - call'[p].offset ELSE 0)
      ]_vars

C29_DeleteRemovesChargesBackEmits ==
    [][ \A p \in Procs :
          (call[p].pc # "done" /\ call'[p].pc = "done"
             /\ call'[p].op = "delete" /\ call'[p].result = "ok") =>
              LET c == call[p]
                  ev == [type |-> "delete", db |-> c.db, coll |-> c.coll, id |-> c.id]
              IN  /\ ~\E r \in docs' : r.db = c.db /\ r.coll = c.coll /\ r.id = c.id
                  /\ quotaUsed'[c.db] = QuotaAfterDelete(quotaUsed[c.db], c.size)
                  /\ events' = events (+) SetToBag({ev})
                  /\ CopiesIn(ev, events') = 1
      ]_vars

\* the routes that operate on the documents of one collection
DocumentRoutes ==
    {"InsertDocument", "QueryDocuments", "DeleteDocument", "StreamCollectionEvents"}

\* C30: a request for the documents of a collection that has no schema is
\* answered 404 (an insert whose body holds no data is answered 400 before the
\* schema is looked up) and runs no statement on the collection's table.
C30_NoSchemaNoStatement ==
    (lastReq.handler \in DocumentRoutes /\ GetSchema(lastReq.db, lastReq.name) = {}) =>
        /\ \/ lastReq.status = 404
           \/ lastReq.handler = "InsertDocument" /\ lastReq.status = 400
        /\ lastReq.stmts = {}

(***************************************************************************)
(* The identifier sanitizer applied to names: ValidateIdentifier,          *)
(* QuoteIdentifier and SafeIdentifier of internal/database/validation.go.  *)
(* One step is one call; the result stays in the call record until the     *)
(* caller has read it.                                                     *)
(***************************************************************************)

\* the longest name tried
MaxNameLen == 65

\* the character U+0060, written as a token of its own
Backtick == "U+0060"

\* n times the character ch
Repeat(ch, n) == [i \in 1..n |-> ch]

\* strings.ToLower, to write the keywords in lower case
ToLower(name) ==
    [i \in 1..Len(name) |->
        IF \E k \in 1..Len(UpperSeq) : UpperSeq[k] = name[i]
        THEN LowerSeq[CHOOSE k \in 1..Len(UpperSeq) : UpperSeq[k] = name[i]]
        ELSE name[i]]

\* a keyword with a capital first letter and the rest in lower case
Capitalized(name) == <<name[1]>> \o ToLower(Tail(name))

\* the names the sanitizer is called with
IdentNames ==
    {Repeat("a", n) : n \in {0, 1, MaxNameLen - 2, MaxNameLen - 1, MaxNameLen}}
        \cup {Repeat("_", MaxNameLen - 1), Repeat("Z", MaxNameLen),
              Repeat("a", MaxNameLen - 2) \o <<"-">>,
              <<"1">> \o Repeat("a", MaxNameLen - 2)}
        \cup reservedKeywords
        \cup {ToLower(k) : k \in reservedKeywords}
        \cup {Capitalized(k) : k \in reservedKeywords}
        \cup {ToLower(k) \o <<"s">> : k \in reservedKeywords}
        \cup {NameUsers, <<"_">>, <<"_", "a", "1">>, <<"U", "s", "e", "r", "_", "2">>,
              <<"1", "a">>, <<"a", "-", "b">>, <<"a", " ", "b">>, <<"a", ";">>,
              <<"a", ".", "b">>, <<"a", "'">>, <<" ">>, <<"9">>,
              <<Backtick>>, <<Backtick, Backtick>>, <<"a", Backtick, "b">>,
              <<"a", Backtick, Backtick, "b", Backtick>>}

\* strings.ReplaceAll: every U+0060 is written twice
RECURSIVE ReplaceAll(_)
ReplaceAll(name) ==
    IF name = <<>> THEN <<>>
    ELSE (IF Head(name) = Backtick THEN <<Backtick, Backtick>> ELSE <<Head(name)>>)
            \o ReplaceAll(Tail(name))

\* a quoting that wraps the name and leaves its backticks single
QuoteIdentifier_NoDoubling(name) == <<Backtick>> \o name \o <<Backtick>>

\* QuoteIdentifier: U+0060 + escaped + U+0060
QuoteIdentifier(name) == <<Backtick>> \o ReplaceAll(name) \o <<Backtick>>

\* SafeIdentifier: ("", err) when ValidateIdentifier fails, the quoted name
\* and nil otherwise
SafeIdentifier(name) ==
    IF ~ValidateIdentifier(name)
    THEN [out |-> <<>>, ok |-> FALSE]
    ELSE [out |-> QuoteIdentifier(name), ok |-> TRUE]

IdentProcs == {"p1"}

IdleIdent == [pc |-> "idle", op |-> "", name |-> <<>>, out |-> <<>>, ok |-> FALSE]

IdentFrame ==
    UNCHANGED <<docs, quotaUsed, quotaLimit, nextDoc, events, databases, retired, files,
                schemas, tables, subs, lastReq, bcVars, clockVars>>

\* err := ValidateIdentifier(name)
IdentValidate(p, name) ==
    /\ call[p].pc = "idle"
    /\ call' = [call EXCEPT ![p] = [pc |-> "done", op |-> "ValidateIdentifier",
                                    name |-> name, out |-> <<>>,
                                    ok |-> ValidateIdentifier(name)]]
    /\ IdentFrame

\* quoted := QuoteIdentifier(name)
IdentQuote(p, name) ==
    /\ call[p].pc = "idle"
    /\ call' = [call EXCEPT ![p] = [pc |-> "done", op |-> "QuoteIdentifier",
                                    name |-> name, out |-> QuoteIdentifier(name),
                                    ok |-> TRUE]]
    /\ IdentFrame

\* quoted, err := SafeIdentifier(name)
IdentSafe(p, name) ==
    /\ call[p].pc = "idle"
    /\ call' = [call EXCEPT ![p] = [pc |-> "done", op |-> "SafeIdentifier",
                                    name |-> name, out |-> SafeIdentifier(name).out,
                                    ok |-> SafeIdentifier(name).ok]]
    /\ IdentFrame

\* the caller has read the result
IdentReturn(p) ==
    /\ call[p].pc = "done"
    /\ call' = [call EXCEPT ![p] = IdleIdent]
    /\ IdentFrame

InitIdent ==
    /\ docs = {}
    /\ quotaUsed = [t \in TenantIds |-> 0]
    /\ quotaLimit = [t \in TenantIds |-> 0]
    /\ call = [p \in IdentProcs |-> IdleIdent]
    /\ nextDoc = 1
    /\ events = EmptyBag
    /\ databases = {}
    /\ retired = {}
    /\ files = {}
    /\ schemas = {}
    /\ tables = {}
    /\ subs = {}
    /\ lastReq = NoReq
    /\ ClockStopped
    /\ NewBroadcaster

NextIdent ==
    \/ \E p \in IdentProcs, name \in IdentNames : IdentValidate(p, name)
    \/ \E p \in IdentProcs, name \in IdentNames : IdentQuote(p, name)
    \/ \E p \in IdentProcs, name \in IdentNames : IdentSafe(p, name)
    \/ \E p \in IdentProcs : IdentReturn(p)

SpecIdent == InitIdent /\ [][NextIdent]_vars

(***************************************************************************)
(* Claims about the identifier sanitizer, checked under SpecIdent          *)
(***************************************************************************)

\* x and y are the same character up to the case of a letter
SameLetter(x, y) ==
    x = y \/ \E k \in 1..Len(LowerSeq) : {x, y} = {LowerSeq[k], UpperSeq[k]}

\* a and b are equal when case is ignored
EqualFold(a, b) ==
    Len(a) = Len(b) /\ \A i \in 1..Len(a) : SameLetter(a[i], b[i])

\* the names the specification admits
Admissible(name) ==
    /\ Len(name) >= 1
    /\ Len(name) <= 64
    /\ \A i \in 1..Len(name) : name[i] \in Letters \cup Digits \cup {"_"}
    /\ name[1] \notin Digits
    /\ \A k \in reservedKeywords : ~EqualFold(name, k)

\* C31: ValidateIdentifier returns nil exactly for the names that are not
\* empty, have at most 64 characters, consist of letters, digits and
\* underscores without a leading digit, and are not a reserved keyword in any
\* mix of cases.
C31_ValidateIdentifierExact ==
    \A p \in IdentProcs :
        (call[p].pc = "done" /\ call[p].op = "ValidateIdentifier") =>
            (call[p].ok <=> Admissible(call[p].name))

\* a name of 64 characters was accepted
C31_Witness ==
    \E p \in IdentProcs :
        /\ call[p].pc = "done" /\ call[p].op = "ValidateIdentifier"
        /\ Len(call[p].name) = 64
        /\ call[p].ok

\* the number of backticks among the first n characters of name
RECURSIVE BackticksIn(_, _)
BackticksIn(name, n) ==
    IF n = 0 THEN 0
    ELSE BackticksIn(name, n - 1) + (IF name[n] = Backtick THEN 1 ELSE 0)

KeysOf(r) == {r.write_key, r.read_key}

\* C33: the write key and the read key of a tenant differ, two tenants share
\* neither their id nor any key, and the first step of a CreateDatabase
\* either adds one row whose id and keys no row had, or adds none and
\* answers with an error.
C33_KeysUniqueAcrossTenants ==
    /\ [](/\ \A r \in databases : r.write_key # r.read_key
          /\ \A r1, r2 \in databases :
                r1 # r2 => (r1.id # r2.id /\ KeysOf(r1) \cap KeysOf(r2) = {}))
    /\ [][ \A p \in Procs :
             (call[p].pc = "idle" /\ call'[p].op = "CreateDatabase") =>
                 \/ /\ call'[p].pc = "done" /\ call'[p].status = 500
                    /\ databases' = databases
                 \/ /\ call'[p].pc = "initfile"
                    /\ \E row \in databases' \ databases :
                          /\ databases' = databases \cup {row}
                          /\ row.id = call'[p].db
                          /\ \A r \in databases :
                                r.id # row.id /\ KeysOf(r) \cap KeysOf(row) = {}
         ]_vars

\* with one tenant in the catalog, a CreateDatabase whose id was new and
\* whose keys were taken has been answered with an error
C33_Witness ==
    \E p \in Procs :
        /\ call[p].op = "CreateDatabase"
        /\ call[p].pc = "done" /\ call[p].status = 500 /\ call[p].via = "insert"
        /\ Cardinality(databases) = 1
        /\ \A r \in databases : r.id # call[p].db

(***************************************************************************)
(* Claims about the update of a document, checked under SpecApi            *)
(***************************************************************************)

\* C34: a PUT of a document by the holder of the tenant's write key reaches
\* the update: it is answered with the document (200), or with one of the
\* failures of an update (validation 400, quota 402, not found 404).
C34_UpdateAvailableToWriters ==
    (/\ lastReq.handler = "UpdateDocument"
     /\ lastReq.key.prefix = "wk_"
     /\ \E r \in databases : r.write_key = lastReq.key /\ r.id = lastReq.url) =>
        lastReq.status \in {200, 400, 402, 404}

(***************************************************************************)
(* Claims about what concurrent readers see, checked under SpecDoc         *)
(***************************************************************************)

\* document id is stored by an InsertDocument that has not charged it yet
StoredUncharged(id) ==
    \E q \in Procs :
        /\ call[q].op = "insert" /\ call[q].id = id
        /\ call[q].pc \in {"ins_quota", "ins_check"}

\* C35: a query never returns a document whose InsertDocument is then
\* refused for the quota, and never a document that is stored but not yet
\* charged to quota_used.
C35_InsertAndChargeAtomic ==
    /\ [](\A p, q \in Procs :
             (/\ call[p].op = "query" /\ call[p].pc = "done"
              /\ call[q].op = "insert" /\ call[q].pc = "done"
              /\ call[q].result = "quota_exceeded") =>
                 call[q].id \notin call[p].seen)
    /\ [][ \A p \in Procs :
             (call[p].pc = "idle" /\ call'[p].op = "query") =>
                 \A id \in call'[p].seen : ~StoredUncharged(id)
         ]_vars

(***************************************************************************)
(* Claims about listeners that have left, checked under SpecBc             *)
(***************************************************************************)

\* C36: once Unsubscribe or UnsubscribeCollection has returned for a
\* listener, no step of a Broadcast, running or later, puts an event into
\* the listener's queue.
C36_NoDeliveryAfterUnsubscribe ==
    [][ \A l \in ListenerPool :
          (listener[l].pc = "ended" /\ listener'[l].pc = "ended") =>
              /\ listener'[l].Events = listener[l].Events
              /\ listener'[l].got = listener[l].got
      ]_vars

(***************************************************************************)
(* Claims about the storage of a deleted tenant, checked under SpecCat     *)
(***************************************************************************)

\* C37: when a tenant has been deleted (its id is retired and it has no row)
\* and no request is in progress on it, its storage file does not exist.
C37_StorageNeverOutlivesTenant ==
    \A t \in TenantIds :
        (/\ t \in retired
         /\ \A r \in databases : r.id # t
         /\ \A p \in Procs : call[p].pc = "idle" \/ call[p].db # t) =>
            t \notin files

\* the positions of the window [offset, offset+limit) of an ordered answer
\* whose documents the filters select
SelectedPositions(s, limit, offset, filters) ==
    {i \in 1..Len(s) :
        /\ offset < i
        /\ i <= offset + limit
        /\ Selected(Unmarshal(s[i].json), filters)}

\* the k-th smallest member of a set of positions
NthPosition(P, k) ==
    CHOOSE i \in P : Cardinality({j \in P : j < i}) = k - 1

\* C38: QueryDocuments applies limit and offset to the unfiltered sequence of
\* the collection in creation-time order and the filters to that window: its
\* answer is, in order, exactly the documents the filters select among the
\* positions offset+1 .. offset+limit of one such ordering of all the rows,
\* whatever matching documents lie outside the window.
C38_WindowThenFilter ==
    [][ \A p \in DataProcs :
          (call[p].pc = "idle" /\ call'[p].op = "QueryDocuments") =>
              LET result == call'[p].result
                  rows == RowsIn(call'[p].coll)
                  n == Cardinality(rows)
              IN  \E s \in [1..n -> rows] :
                      /\ \A i, j \in 1..n : i # j => s[i] # s[j]
                      /\ \A i, j \in 1..n : i < j => s[i].created_at >= s[j].created_at
                      /\ LET P == SelectedPositions(s, call'[p].limit, call'[p].offset,
                                                    call'[p].filters)
                         IN  /\ Len(result) = Cardinality(P)
                             /\ \A k \in 1..Len(result) :
                                   /\ result[k].id = s[NthPosition(P, k)].id
                                   /\ result[k].data = Unmarshal(s[NthPosition(P, k)].json)
      ]_vars

\* a query with limit 1 and a filter answered with no document although the
\* collection holds a document the filter selects: the one row of the window
\* did not match and the matching row lay outside the window
C38_Witness ==
    \E p \in DataProcs :
        /\ call[p].op = "QueryDocuments"
        /\ call[p].pc = "done"
        /\ call[p].limit = 1
        /\ call[p].offset = 0
        /\ call[p].filters = ("s" :> <<<<"x">>>>)
        /\ call[p].result = <<>>
        /\ Cardinality(RowsIn(call[p].coll)) = 2
        /\ \E r \in RowsIn(call[p].coll) :
              Selected(Unmarshal(r.json), call[p].filters)

\* the delete events of document id that the broadcaster was handed
DeleteEvents(db, coll, id) ==
    {e \in BagToSet(events) : e.type = "delete" /\ e.db = db /\ e.coll = coll /\ e.id = id}

\* C39: of the DeleteDocument calls that target one document, however they
\* interleave, at most one returns success: the step that returns success
\* finds no delete event of the document and leaves exactly one, so a second
\* success never happens; every other call returns not found, and no step of
\* a call that does not return success changes quota_used or emits an event.
C39_OneDeleteWins ==
    /\ [](\A db \in DocTenants, coll \in DocColls, id \in DocIds :
             /\ Cardinality(DeleteEvents(db, coll, id)) <= 1
             /\ \A e \in DeleteEvents(db, coll, id) : CopiesIn(e, events) = 1
             /\ Cardinality({p \in Procs :
                    /\ call[p].op = "delete" /\ call[p].result = "ok"
                    /\ call[p].db = db /\ call[p].coll = coll /\ call[p].id = id}) <= 1)
    /\ [][ \A p \in Procs :
             (call[p].pc # call'[p].pc /\ call'[p].op = "delete") =>
                 IF call'[p].result = "ok"
                 THEN /\ DeleteEvents(call[p].db, call[p].coll, call[p].id) = {}
                      /\ quotaUsed'[call[p].db] <= call[p].read
                 ELSE /\ call'[p].pc = "done" => call'[p].result = "not_found"
                      /\ quotaUsed' = quotaUsed
                      /\ events' = events
         ]_vars

\* two DeleteDocument calls on one document ran side by side: both found the
\* row with their SELECT, one returned success and the other not found
C39_Witness ==
    \E p, q \in Procs :
        /\ p # q
        /\ call[p].op = "delete" /\ call[q].op = "delete"
        /\ call[p].pc = "done" /\ call[q].pc = "done"
        /\ call[p].db = call[q].db /\ call[p].coll = call[q].coll /\ call[p].id = call[q].id
        /\ call[p].result = "ok"
        /\ call[q].result = "not_found"
        /\ call[q].size > 0
        /\ Cardinality(DeleteEvents(call[p].db, call[p].coll, call[p].id)) = 1

(***************************************************************************)
(* The broadcaster's lock against the heartbeat. cleanupRoutine             *)
(* (broadcaster.go:161-192) takes b.mu, visits the listeners of both       *)
(* registries one after the other, reading LastPing of each, and releases  *)
(* b.mu; here every visit is a step, so that what the other goroutines do  *)
(* while the lock is held can be seen. Subscribe, SubscribeCollection,     *)
(* Unsubscribe and UnsubscribeCollection take b.mu and wait while the      *)
(* sweep holds it. UpdatePing (208-211) takes no lock. A read of LastPing  *)
(* that races with the write yields the value before or the value after    *)
(* it: the visit is a step before the write or a step after it.            *)
(***************************************************************************)

\* the goroutine NewBroadcaster starts with go b.cleanupRoutine()
SweepGoroutine == "cleanup"

\* the sweep between two ticks of its ticker, holding nothing
IdleSweep == [pc |-> "wait", todo |-> {}]

\* b.mu is held by the sweep
MuHeld == call[SweepGoroutine].pc = "locked"

\* b.mu.Lock() ... b.mu.Unlock() around a body that is one step
WithLock(body) == ~MuHeld /\ body

\* line 166: the ticker fired and b.mu.Lock() returned; the range loops have
\* the listeners of both registries before them
SweepLock ==
    /\ call[SweepGoroutine].pc = "wait"
    /\ call' = [call EXCEPT ![SweepGoroutine] = [pc |-> "locked", todo |-> Registered]]
    /\ UNCHANGED <<docs, quotaUsed, quotaLimit, nextDoc, events, apiVars, bcVars, clockVars>>

\* lines 170-176 and 186-192: one listener of the range loops; LastPing is
\* read, and a listener older than two minutes is deleted and its Done closed
SweepVisit(l) ==
    /\ MuHeld
    /\ l \in call[SweepGoroutine].todo
    /\ call' = [call EXCEPT ![SweepGoroutine].todo = @ \ {l}]
    /\ IF IsStale(listener[l])
       THEN /\ databaseListeners' = [d \in BcTenants |-> databaseListeners[d] \ {l}]
            /\ collectionListeners' =
                  [k \in BcTenants \X BcColls |-> collectionListeners[k] \ {l}]
            /\ listener' = [listener EXCEPT ![l] = CloseDone(@)]
       ELSE UNCHANGED <<databaseListeners, collectionListeners, listener>>
    /\ UNCHANGED <<bcast, nextEvent, heartbeats>>
    /\ UNCHANGED <<docs, quotaUsed, quotaLimit, nextDoc, events, apiVars, clockVars>>

\* line 204: both loops are through, b.mu.Unlock()
SweepUnlock ==
    /\ MuHeld
    /\ call[SweepGoroutine].todo = {}
    /\ call' = [call EXCEPT ![SweepGoroutine] = IdleSweep]
    /\ UNCHANGED <<docs, quotaUsed, quotaLimit, nextDoc, events, apiVars, bcVars, clockVars>>

InitMu ==
    /\ docs = {}
    /\ quotaUsed = [t \in TenantIds |-> 0]
    /\ quotaLimit = [t \in TenantIds |-> 0]
    /\ call = [g \in {SweepGoroutine} |-> IdleSweep]
    /\ nextDoc = 1
    /\ events = EmptyBag
    /\ databases = {}
    /\ retired = {}
    /\ files = {}
    /\ schemas = {}
    /\ tables = {}
    /\ subs = {}
    /\ lastReq = NoReq
    /\ ClockStopped
    /\ NewBroadcaster

NextMu ==
    \/ \E l \in ListenerPool, db \in BcTenants : WithLock(Subscribe(l, db))
    \/ \E l \in ListenerPool, db \in BcTenants, coll \in BcColls :
          WithLock(SubscribeCollection(l, db, coll))
    \/ \E l \in ListenerPool : UpdatePing(l)
    \/ \E l \in ListenerPool : PingOverdue(l)
    \/ \E l \in ListenerPool, clientGone \in BOOLEAN : StreamReturn(l, clientGone)
    \/ \E l \in ListenerPool : WithLock(Unsubscribe(l))
    \/ \E l \in ListenerPool : WithLock(UnsubscribeCollection(l))
    \/ SweepLock
    \/ \E l \in ListenerPool : SweepVisit(l)
    \/ SweepUnlock

SpecMu == InitMu /\ [][NextMu]_vars

\* C40: LastPing of a listener is never written by UpdatePing at the same
\* time as the sweep reads it, every access being made under the
\* broadcaster's lock: no step of a delivery loop writes LastPing of a
\* listener while the sweep holds the lock and has that listener still
\* before it.
C40_LastPingOnlyUnderLock ==
    [][ \A l \in ListenerPool :
          (listener[l].pc = "stream" /\ listener'[l].pc = "stream"
             /\ listener[l].age > 0 /\ listener'[l].age = 0) =>
              ~(MuHeld /\ l \in call[SweepGoroutine].todo)
      ]_vars

====
